---- MODULE Spec2Model ----
(***************************************************************************)
(* Coordination layer of the chat agent: the Channel Client                *)
(* (src/src/hooks/useChannel.ts), the sandbox agent with its channel       *)
(* bridge (src/worker/sandbox/src/agent.ts, channel.ts) and the start      *)
(* endpoints of the Session Broker (src/unnamed/part_007).                 *)
(*                                                                         *)
(* The message bus (supabase realtime) is the environment. A channel joins *)
(* (SUBSCRIBED), may fail and rejoin (CHANNEL_ERROR, TIMED_OUT, SUBSCRIBED  *)
(* again), and closes (CLOSED) by itself or after unsubscribe; broadcasts  *)
(* reach a channel that has joined, also while its unsubscribe is pending. *)
(***************************************************************************)
EXTENDS Integers, Sequences, FiniteSets, TLC

\* ------------------------------------------------------------------ bounds
MaxChannels == 2   \* channels the client creates (successful connect calls)
MaxTimers   == 2   \* ready-wait timers ever started
MaxMsgs     == 4   \* user_message broadcasts delivered to the sandbox agent
MaxStream   == 2   \* messages the query stream emits
MaxReqs     == 2   \* requests the broker receives
MaxCasts    == 1   \* broadcasts published on a session channel
MaxSockets  == 2   \* WebSockets a chat client has at one time (one current, one closing)
MaxWsEvents == 6   \* opens and abnormal closes the reconnecting client goes through
MaxWsMsgs   == 3   \* user messages that arrive on one connection of the sandbox server

Channels == 1..MaxChannels
Timers   == 1..MaxTimers

\* ------------------------------------------------- Channel Client constants
NoRef == 0         \* a null ref (channelRef.current / timeoutRef.current)

ChannelState == {"disconnected", "connecting", "connected"}

ErrNone        == "null"
ErrNotConn     == "Not connected"
ErrTimeout     == "Connection timeout - agent did not respond"
ErrChannel     == "Failed to connect to channel"
ErrClosed      == "Channel closed unexpectedly"
ErrSubTimedOut == "Channel subscription timed out"
ErrAgent       == "Unknown error"

\* channel names a caller passes to connect
ChannelNames == {"", "s1"}

\* agent_message types (ChannelMessage.type)
MsgTypes == {"ready", "complete", "error", "assistant_message"}

VARIABLES
  state,       \* useState<ChannelState>
  error,       \* useState<string | null>
  channelRef,  \* channelRef.current: NoRef or the channel held
  timeoutRef,  \* timeoutRef.current: NoRef or a timer id
  mounted,     \* mountedRef.current
  bus,         \* per channel, the bus side: "none", "joining", "joined",
               \* "leaving" (unsubscribed after it had joined), "closing"
               \* (unsubscribed before it had joined), "closed"
  promise,     \* per channel, the promise connect returned: "none", "pending", "resolved", "rejected"
  readySeen,   \* per channel, its handler has received a 'ready' broadcast
  timer,       \* per timer id: "unset", "pending", "done" (fired or cleared)
  timerChan,   \* per pending timer id: the channel whose SUBSCRIBED started it
  last         \* the last call or callback: what ran, on which channel, its result,
               \* and what it did outside (option callback invoked, broadcast published)

cvars == <<state, error, channelRef, timeoutRef, mounted, bus, promise,
           readySeen, timer, timerChan, last>>

\* ------------------------------------------------ AgentChannel (sandbox side)
VARIABLES
  connected,     \* AgentChannel.connected
  messageQueue,  \* AgentChannel.messageQueue: user messages, by arrival number
  resolveNext,   \* AgentChannel.resolveNext is set (a consumer is parked)
  agentBus,      \* AgentChannel.channel on the bus: "none", "joining", "joined", "leaving"
  gen,           \* messageGenerator: "none", "suspended", "parked", "woken", "done"
  received,      \* user_message broadcasts the listener has received
  yielded,       \* arrival numbers of the messages the generator has yielded, in order
  main,          \* agent main(): where it stands (see AgentMain)
  mode,          \* config.mode once main() has read it, "unset" before
  outbox,        \* the agent_message broadcasts handed to the bus, in order
  busAnswer,     \* what the bus answered to the last of them
  pending,       \* content blocks of the stream message being translated
  streamed,      \* messages the query stream has emitted
  err            \* message of the exception the catch block holds

avars == <<connected, messageQueue, resolveNext, agentBus, gen, received, yielded,
           main, mode, outbox, busAnswer, pending, streamed, err>>

\* AgentChannel's own fields and the generator
qvars == <<connected, messageQueue, resolveNext, agentBus, gen, received, yielded>>

\* main()'s own position and what it has published
mvars == <<mode, outbox, busAnswer, pending, streamed, err>>

\* ------------------------------------------------------ Session Broker
VARIABLES
  reqs,            \* per request: its input, where its handler stands, its response
                   \* and the calls the handler has made (did)
  sandboxFiles,    \* session ids whose sandbox holds /workspace/agent.js
  processes,       \* per session id, the agent processes started in its sandbox
  brokerSubs,      \* observing channel subscriptions, by the request that opened them
  intervals,       \* running timeoutCheck intervals, by the request that set them
  promptTimeouts,  \* the promptTimeouts map: session id -> interval handle, NoRef if none
  sup,             \* per request, the inactivity supervisor its handler set up: how
                   \* far it is, the time since its lastActivity (silence), the time
                   \* until its next timeoutCheck, its unsubscribe and destroy calls
  sandbox,         \* per session id, its sandbox: "none", "running" (an agent process
                   \* runs), "exited" (the process has exited), "destroyed"
  casts            \* broadcasts published on the session channels so far

\* the supervisors and what they watch
svars == <<sup, sandbox, casts>>

bvars == <<reqs, sandboxFiles, processes, brokerSubs, intervals, promptTimeouts, svars>>

\* the hooks built on these components
VARIABLES
  link,        \* the session hook over useChannel (useChat of part_003 or
               \* usePrompt) and the bus between the sandbox agent and the client
  stale,       \* the WebSocket chat client with stale detection (hooks/useChat.ts)
  recon,       \* the auto-reconnecting WebSocket chat client (part_005)
  srv          \* one connection of the WebSocket sandbox server (server.js)

xvars == <<link, stale, recon, srv>>

vars == <<cvars, avars, bvars, xvars>>

Call(ev, ch, ret, cb) == [ev |-> ev, ch |-> ch, ret |-> ret, cb |-> cb]

\* a connect call: its argument is recorded with its result
ConnectCall(channelName, ch, ret) ==
  [ev |-> "connect:" \o channelName, ch |-> ch, ret |-> ret, cb |-> "none"]

ChannelInit ==
  /\ state = "disconnected"
  /\ error = ErrNone
  /\ channelRef = NoRef
  /\ timeoutRef = NoRef
  /\ mounted = TRUE
  /\ bus = [c \in Channels |-> "none"]
  /\ promise = [c \in Channels |-> "none"]
  /\ readySeen = [c \in Channels |-> FALSE]
  /\ timer = [t \in Timers |-> "unset"]
  /\ timerChan = [t \in Timers |-> NoRef]
  /\ last = Call("init", NoRef, "none", "none")

AgentInit ==
  /\ connected = FALSE
  /\ messageQueue = << >>
  /\ resolveNext = FALSE
  /\ agentBus = "none"
  /\ gen = "none"
  /\ received = 0
  /\ yielded = << >>
  /\ main = "start"
  /\ mode = "unset"
  /\ outbox = << >>
  /\ busAnswer = "none"
  /\ pending = << >>
  /\ streamed = 0
  /\ err = "none"

\* session ids a request body carries ("" stands for a missing sessionId)
SessionIds == {"", "s1", "s2"}

Reqs == 1..MaxReqs

\* a request slot before its request has arrived
NoRequest ==
  [path |-> "", token |-> "none", json |-> FALSE, sessionId |-> "", prompt |-> "",
   pc |-> "idle", status |-> 0, error |-> "", did |-> {}, user |-> "null"]

\* a supervisor before its first step
NoSupervisor ==
  [stage |-> "none", silence |-> 0, untilCheck |-> 0, unsubscribes |-> 0, destroys |-> 0]

BrokerInit ==
  /\ reqs = [r \in Reqs |-> [pc |-> "idle"]]
  /\ sandboxFiles = {}
  /\ processes = [s \in SessionIds \ {""} |-> 0]
  /\ brokerSubs = {}
  /\ intervals = {}
  /\ promptTimeouts = [s \in SessionIds \ {""} |-> NoRef]
  /\ sup = [r \in Reqs |-> [stage |-> "none"]]
  /\ sandbox = [s \in SessionIds \ {""} |-> "none"]
  /\ casts = 0

\* request r as the broker sees it, received or not
Req(r) == IF reqs[r].pc = "idle" THEN NoRequest ELSE reqs[r]

\* the supervisor of request r, set up or not
Sup(r) == IF sup[r].stage = "none" THEN NoSupervisor ELSE sup[r]

\* useChat (part_003 24-31) and usePrompt (22-28) start idle, nothing is on
\* the bus
LinkIdle ==
  [kind |-> "none", pc |-> "idle", ch |-> NoRef, imm |-> FALSE, posts |-> 0,
   relayed |-> FALSE, readyFor |-> {}, early |-> FALSE,
   named |-> [c \in Channels |-> ""], completed |-> FALSE]

\* no session hook has run yet
LinkInit == link = [kind |-> "none"]

\* the session's state, a hook called or not
Link == IF link.kind = "none" THEN LinkIdle ELSE link

Sockets == 1..MaxSockets

\* hooks/useChat.ts 33-39: no socket, no stale check, 'disconnected'
StaleMounted ==
  [wsRef |-> NoRef, ready |-> [s \in Sockets |-> "none"], checking |-> FALSE,
   silence |-> 0, until |-> 0, wasEver |-> FALSE,
   state |-> "disconnected", lost |-> FALSE, made |-> 0, by |-> "init"]

\* the component is not mounted: the hook has no state yet
StaleInit == stale = [made |-> 0]

\* the hook's state, mounted or not
StaleHook == IF stale.made = 0 THEN StaleMounted ELSE stale

\* part_005 34-41: no socket, no reconnect timer, no attempt counted
ReconMounted ==
  [wsRef |-> NoRef, ready |-> [s \in Sockets |-> "none"], attempts |-> 0,
   timers |-> 0, refd |-> FALSE, delay |-> 0, state |-> "disconnected",
   log |-> <<>>, off |-> FALSE]

\* the component is not mounted: the hook has no state yet
ReconInit == recon = [state |-> "unmounted"]

\* the hook's state, mounted or not
ReconHook == IF recon.state = "unmounted" THEN ReconMounted ELSE recon

WsMsgs == 1..MaxWsMsgs

\* server.js 155-163: the state of a connection as its handler sets it up
SrvConnected ==
  [conn |-> "open", arrived |-> 0, h |-> [m \in WsMsgs |-> "none"],
   servers |-> 0, messageQueue |-> <<>>, yielded |-> <<>>,
   resolveNext |-> FALSE, queryStarted |-> FALSE, queryEnded |-> FALSE,
   gen |-> "none"]

\* no client has connected yet
SrvInit == srv = [conn |-> "none"]

\* the connection's state, connected or not
Srv == IF srv.conn = "none" THEN SrvConnected ELSE srv

Init ==
  ChannelInit /\ AgentInit /\ BrokerInit /\ LinkInit /\ StaleInit /\ ReconInit /\ SrvInit

\* clearTimeout(id): a pending timer is cancelled, any other id is ignored
clearTimeout(id) ==
  IF id # NoRef /\ timer[id] = "pending"
    THEN [timer EXCEPT ![id] = "done"]
    ELSE timer

\* a promise settles once: resolve/reject of a settled promise is a no-op
Settle(c, how) ==
  IF promise[c] = "pending" THEN [promise EXCEPT ![c] = how] ELSE promise

\* clearReadyTimeout(), lines 54-59
clearReadyTimeout ==
  /\ timer' = clearTimeout(timeoutRef)
  /\ timerChan' = IF timeoutRef # NoRef
                    THEN [timerChan EXCEPT ![timeoutRef] = NoRef]
                    ELSE timerChan
  /\ timeoutRef' = NoRef

\* connect that does not look at channelRef.current (no lines 70-74)
connect_NoHeldCheck(channelName) ==
  /\ IF channelName = ""
       THEN /\ last' = ConnectCall(channelName, NoRef, "rejected: No channel name")
            /\ UNCHANGED <<state, error, channelRef, timeoutRef, bus, promise, timer, timerChan>>
       ELSE \E c \in Channels :
            /\ bus[c] = "none"
            /\ \A d \in Channels : d < c => bus[d] # "none"
            /\ state' = "connecting"
            /\ error' = ErrNone
            /\ clearReadyTimeout
            /\ bus' = [bus EXCEPT ![c] = "joining"]
            /\ promise' = [promise EXCEPT ![c] = "pending"]
            /\ channelRef' = c
            /\ last' = ConnectCall(channelName, c, "pending")
  /\ UNCHANGED <<mounted, readySeen>>
  /\ UNCHANGED <<avars, bvars, xvars>>

\* connect(channelName), lines 62-148; the hooks that use useChannel call it
\* connectChannel
connectChannel(channelName) ==
  /\ IF channelName = ""
       THEN /\ last' = ConnectCall(channelName, NoRef, "rejected: No channel name")
            /\ UNCHANGED <<state, error, channelRef, timeoutRef, bus, promise, timer, timerChan>>
       ELSE IF channelRef # NoRef
       THEN /\ last' = ConnectCall(channelName, channelRef, "resolved")
            /\ UNCHANGED <<state, error, channelRef, timeoutRef, bus, promise, timer, timerChan>>
       ELSE \E c \in Channels :
            /\ bus[c] = "none"
            /\ \A d \in Channels : d < c => bus[d] # "none"
            /\ state' = "connecting"
            /\ error' = ErrNone
            /\ clearReadyTimeout
            /\ bus' = [bus EXCEPT ![c] = "joining"]
            /\ promise' = [promise EXCEPT ![c] = "pending"]
            /\ channelRef' = c
            /\ last' = ConnectCall(channelName, c, "pending")
  /\ UNCHANGED <<mounted, readySeen>>

\* connect called by the component itself
connect(channelName) ==
  /\ connectChannel(channelName)
  /\ UNCHANGED <<avars, bvars, xvars>>

\* the 'agent_message' broadcast handler of channel c, lines 85-102
onAgentMessage(c, type) ==
  /\ bus[c] \in {"joined", "leaving"}
  /\ IF type = "ready"
       THEN /\ readySeen' = [readySeen EXCEPT ![c] = TRUE]
            /\ clearReadyTimeout
            /\ state' = "connected"
            /\ last' = Call("agent_message", c, type, "onReady")
            /\ UNCHANGED error
       ELSE IF type = "complete"
       THEN /\ last' = Call("agent_message", c, type, "onComplete")
            /\ UNCHANGED <<readySeen, timer, timerChan, timeoutRef, state, error>>
       ELSE IF type = "error"
       THEN /\ error' = ErrAgent
            /\ last' = Call("agent_message", c, type, "onError")
            /\ UNCHANGED <<readySeen, timer, timerChan, timeoutRef, state>>
       ELSE /\ last' = Call("agent_message", c, type, "onMessage")
            /\ UNCHANGED <<readySeen, timer, timerChan, timeoutRef, state, error>>
  /\ UNCHANGED <<channelRef, mounted, bus, promise>>

\* the handler run for a broadcast the bus delivers
agent_message(c, type) ==
  /\ onAgentMessage(c, type)
  /\ UNCHANGED <<avars, bvars, xvars>>

\* subscribe callback of channel c, status SUBSCRIBED, lines 104-123
StatusSubscribed(c) ==
  /\ bus[c] \in {"joining", "joined"}
  /\ bus' = [bus EXCEPT ![c] = "joined"]
  /\ IF ~mounted
       THEN /\ last' = Call("SUBSCRIBED", c, "ignored", "none")
            /\ UNCHANGED <<timer, timerChan, timeoutRef, promise>>
       ELSE \E t \in Timers :
            /\ timer[t] = "unset"
            /\ \A u \in Timers : u < t => timer[u] # "unset"
            /\ timer' = [timer EXCEPT ![t] = "pending"]
            /\ timerChan' = [timerChan EXCEPT ![t] = c]
            /\ timeoutRef' = t
            /\ promise' = Settle(c, "resolved")
            /\ last' = Call("SUBSCRIBED", c, "handled", "none")
  /\ UNCHANGED <<state, error, channelRef, mounted, readySeen>>
  /\ UNCHANGED <<avars, bvars, xvars>>

\* the timer callback without setState('disconnected') (no line 120)
ReadyTimeout_KeepsState(t) ==
  /\ timer[t] = "pending"
  /\ timer' = [timer EXCEPT ![t] = "done"]
  /\ timerChan' = [timerChan EXCEPT ![t] = NoRef]
  /\ IF ~mounted
       THEN /\ last' = Call("timeout", timerChan[t], "ignored", "none")
            /\ UNCHANGED error
       ELSE /\ error' = ErrTimeout
            /\ last' = Call("timeout", timerChan[t], "handled", "onError")
  /\ UNCHANGED <<state, channelRef, timeoutRef, mounted, bus, promise, readySeen>>
  /\ UNCHANGED <<avars, bvars, xvars>>

\* the setTimeout callback started by SUBSCRIBED, lines 116-122
ReadyTimeout(t) ==
  /\ timer[t] = "pending"
  /\ timer' = [timer EXCEPT ![t] = "done"]
  /\ timerChan' = [timerChan EXCEPT ![t] = NoRef]
  /\ IF ~mounted
       THEN /\ last' = Call("timeout", timerChan[t], "ignored", "none")
            /\ UNCHANGED <<state, error>>
       ELSE /\ error' = ErrTimeout
            /\ state' = "disconnected"
            /\ last' = Call("timeout", timerChan[t], "handled", "onError")
  /\ UNCHANGED <<channelRef, timeoutRef, mounted, bus, promise, readySeen>>
  /\ UNCHANGED <<avars, bvars, xvars>>

\* the CHANNEL_ERROR branch without reject() (no line 129)
StatusChannelError_NoReject(c) ==
  /\ bus[c] \in {"joining", "joined"}
  /\ bus' = [bus EXCEPT ![c] = "joining"]
  /\ IF ~mounted
       THEN /\ last' = Call("CHANNEL_ERROR", c, "ignored", "none")
            /\ UNCHANGED <<state, error>>
       ELSE /\ error' = ErrChannel
            /\ state' = "disconnected"
            /\ last' = Call("CHANNEL_ERROR", c, "handled", "none")
  /\ UNCHANGED <<channelRef, timeoutRef, mounted, readySeen, timer, timerChan, promise>>
  /\ UNCHANGED <<avars, bvars, xvars>>

\* subscribe callback of channel c, status CHANNEL_ERROR, lines 124-129
StatusChannelError(c) ==
  /\ bus[c] \in {"joining", "joined"}
  /\ bus' = [bus EXCEPT ![c] = "joining"]
  /\ IF ~mounted
       THEN /\ last' = Call("CHANNEL_ERROR", c, "ignored", "none")
            /\ UNCHANGED <<state, error, promise>>
       ELSE /\ error' = ErrChannel
            /\ state' = "disconnected"
            /\ promise' = Settle(c, "rejected")
            /\ last' = Call("CHANNEL_ERROR", c, "handled", "none")
  /\ UNCHANGED <<channelRef, timeoutRef, mounted, readySeen, timer, timerChan>>
  /\ UNCHANGED <<avars, bvars, xvars>>

\* subscribe callback of channel c, status CLOSED, lines 130-137
StatusClosed(c) ==
  /\ bus[c] \in {"joining", "joined", "leaving", "closing"}
  /\ bus' = [bus EXCEPT ![c] = "closed"]
  /\ IF ~mounted
       THEN /\ last' = Call("CLOSED", c, "ignored", "none")
            /\ UNCHANGED <<state, error, promise>>
       ELSE IF channelRef # NoRef
       THEN /\ error' = ErrClosed
            /\ state' = "disconnected"
            /\ promise' = Settle(c, "rejected")
            /\ last' = Call("CLOSED", c, "handled", "none")
       ELSE /\ last' = Call("CLOSED", c, "expected", "none")
            /\ UNCHANGED <<state, error, promise>>
  /\ UNCHANGED <<channelRef, timeoutRef, mounted, readySeen, timer, timerChan>>
  /\ UNCHANGED <<avars, bvars, xvars>>

\* subscribe callback of channel c, status TIMED_OUT, lines 138-143
StatusTimedOut(c) ==
  /\ bus[c] = "joining"
  /\ IF ~mounted
       THEN /\ last' = Call("TIMED_OUT", c, "ignored", "none")
            /\ UNCHANGED <<state, error, promise>>
       ELSE /\ error' = ErrSubTimedOut
            /\ state' = "disconnected"
            /\ promise' = Settle(c, "rejected")
            /\ last' = Call("TIMED_OUT", c, "handled", "none")
  /\ UNCHANGED <<channelRef, timeoutRef, mounted, bus, readySeen, timer, timerChan>>
  /\ UNCHANGED <<avars, bvars, xvars>>

\* sendMessage that tests the held channel only (no state test on line 151)
sendMessage_NoStateCheck(result) ==
  /\ IF channelRef = NoRef
       THEN /\ error' = ErrNotConn
            /\ last' = Call("sendMessage", channelRef, "false", "none")
       ELSE /\ last' = Call("sendMessage", channelRef,
                            IF result = "ok" THEN "true" ELSE "false", "user_message")
            /\ UNCHANGED error
  /\ UNCHANGED <<state, channelRef, timeoutRef, mounted, bus, promise, readySeen, timer, timerChan>>
  /\ UNCHANGED <<avars, bvars, xvars>>

\* sendMessage(content), lines 150-165; result is the bus's answer to the
\* publish. The state it tests is the one the component last rendered (the
\* closure of line 165), taken here to be the current one.
sendMessage(result) ==
  /\ IF channelRef = NoRef \/ state # "connected"
       THEN /\ error' = ErrNotConn
            /\ last' = Call("sendMessage", channelRef, "false", "none")
       ELSE /\ last' = Call("sendMessage", channelRef,
                            IF result = "ok" THEN "true" ELSE "false", "user_message")
            /\ UNCHANGED error
  /\ UNCHANGED <<state, channelRef, timeoutRef, mounted, bus, promise, readySeen, timer, timerChan>>
  /\ UNCHANGED <<avars, bvars, xvars>>

\* the held channel is released: the ref is cleared first, then
\* channel.unsubscribe() is called (lines 169-174 and 182-186)
Release ==
  /\ channelRef' = NoRef
  /\ bus' = IF channelRef = NoRef THEN bus
            ELSE [bus EXCEPT ![channelRef] =
                    IF @ \in {"joined", "leaving"} THEN "leaving" ELSE "closing"]

\* disconnect(), lines 167-176
disconnect ==
  /\ clearReadyTimeout
  /\ Release
  /\ state' = "disconnected"
  /\ last' = Call("disconnect", channelRef, "none", "none")
  /\ UNCHANGED <<error, mounted, promise, readySeen>>
  /\ UNCHANGED <<avars, bvars, xvars>>

\* the component unmounts: the effect cleanups of lines 43-45 and 180-187
Unmount ==
  /\ mounted
  /\ mounted' = FALSE
  /\ clearReadyTimeout
  /\ Release
  /\ last' = Call("unmount", channelRef, "none", "none")
  /\ UNCHANGED <<state, error, promise, readySeen>>
  /\ UNCHANGED <<avars, bvars, xvars>>

\* React strict mode runs the effect cleanups (lines 43-45, 180-187) and then
\* the effects again (line 42) in one synchronous pass
Remount ==
  /\ mounted
  /\ clearReadyTimeout
  /\ Release
  /\ last' = Call("remount", channelRef, "none", "none")
  /\ UNCHANGED <<mounted, state, error, promise, readySeen>>
  /\ UNCHANGED <<avars, bvars, xvars>>

\* The hook's functions are called by the component that renders it, so only
\* while it is mounted; the bus and the timers call back at any time.
ChannelNext ==
  \/ mounted /\ \E n \in ChannelNames : connect(n)
  \/ \E c \in Channels, ty \in MsgTypes : agent_message(c, ty)
  \/ \E c \in Channels : StatusSubscribed(c)
  \/ \E t \in Timers : ReadyTimeout(t)
  \/ \E c \in Channels : StatusChannelError(c)
  \/ \E c \in Channels : StatusClosed(c)
  \/ \E c \in Channels : StatusTimedOut(c)
  \/ mounted /\ \E r \in {"ok", "error", "timed out"} : sendMessage(r)
  \/ mounted /\ disconnect
  \/ Unmount
  \/ Remount

SpecChannel == Init /\ [][ChannelNext]_vars

\* ------------------------------------------------------------ AgentChannel
AgentModes == {"interactive", "non-interactive"}

\* process.exit(0) and process.exit(1)
Exited == {"exit0", "exit1"}

\* what channel.send of the bus resolves to
BusAnswers == {"ok", "error", "timed out"}

ErrQuery   == "Query error"
ErrNoAgentChannel == "Channel not connected"

\* err.message of an exception the query stream throws
ThrownMessages == {"", "boom"}

\* an agent_message payload: its type and the text it carries
Msg(type, text) == [type |-> type, text |-> text]

\* messages of the query stream, each by the blocks the loop of agent.ts
\* 96-131 tells apart: an assistant message with a content array (tool_use
\* blocks, text blocks with and without text), an assistant message with a
\* string content (with and without text), a user message with and without
\* <local-command-stdout>, a result message
StreamMsgs ==
  { <<"tool_use">>, <<"text">>, <<"text", "tool_use">>, <<"empty_text", "text">>,
    <<"string">>, <<"empty_string">>, <<"slash">>, <<"user_text">>, <<"result">> }

\* AgentChannel.send, line 58: it throws unless the channel exists and
\* connected is set
CanSend == agentBus # "none" /\ connected

\* AgentChannel.send, lines 61-65: the broadcast is handed to the bus, which
\* answers; the callers ignore the answer
Send(m, a) ==
  /\ outbox' = Append(outbox, m)
  /\ busAnswer' = a

\* main(), agent.ts 31-48: the mode is read; a non-interactive run without a
\* prompt exits with 1; otherwise AgentChannel.connect(), channel.ts 26-41,
\* creates the channel, registers the user_message listener and subscribes
AgentConnect(m, hasPrompt) ==
  /\ main = "start"
  /\ mode' = m
  /\ IF m # "interactive" /\ ~hasPrompt
       THEN main' = "exit1" /\ UNCHANGED agentBus
       ELSE main' = "connecting" /\ agentBus' = "joining"
  /\ UNCHANGED <<connected, messageQueue, resolveNext, gen, received, yielded>>
  /\ UNCHANGED <<outbox, busAnswer, pending, streamed, err>>
  /\ UNCHANGED <<cvars, bvars, xvars>>

\* subscribe callback, status SUBSCRIBED, lines 44-46: connected is set and
\* connect() resolves; main(), if it awaits the connect, continues before any
\* other event and publishes 'ready' (agent.ts 48-52)
AgentSubscribed ==
  /\ agentBus \in {"joining", "joined"}
  /\ main \notin Exited
  /\ agentBus' = "joined"
  /\ connected' = TRUE
  /\ IF main = "connecting"
       THEN /\ \E a \in BusAnswers : Send(Msg("ready", ""), a)
            /\ main' = "mcp"
       ELSE UNCHANGED <<main, outbox, busAnswer>>
  /\ UNCHANGED <<messageQueue, resolveNext, gen, received, yielded>>
  /\ UNCHANGED <<mode, pending, streamed, err>>
  /\ UNCHANGED <<cvars, bvars, xvars>>

\* subscribe callback, status CHANNEL_ERROR or TIMED_OUT, lines 47-51: the
\* pending connect() rejects and main().catch exits (agent.ts 154-157); once
\* connect() has resolved the reject does nothing and connected stays set
AgentSubscribeFailed ==
  /\ agentBus \in {"joining", "joined"}
  /\ main \notin Exited
  /\ agentBus' = "joining"
  /\ main' = IF main = "connecting" THEN "exit1" ELSE main
  /\ UNCHANGED <<connected, messageQueue, resolveNext, gen, received, yielded>>
  /\ UNCHANGED mvars
  /\ UNCHANGED <<cvars, bvars, xvars>>

\* agent.ts 55-93: the tool server is created and query() is handed the
\* generator (interactive) or the prompt
AgentStartQuery ==
  /\ main = "mcp"
  /\ main' = "query"
  /\ UNCHANGED mvars
  /\ UNCHANGED qvars
  /\ UNCHANGED <<cvars, bvars, xvars>>

\* the query stream emits its next message: the for await of line 96 takes it
QueryEmit(m) ==
  /\ main = "query"
  /\ pending = << >>
  /\ streamed < MaxStream
  /\ streamed' = streamed + 1
  /\ pending' = m
  /\ UNCHANGED <<main, mode, outbox, busAnswer, err>>
  /\ UNCHANGED qvars
  /\ UNCHANGED <<cvars, bvars, xvars>>

\* a translation that leaves tool_use blocks out
Outbound_DropsToolUse(block) ==
  CASE block \in {"text", "string"} -> "assistant_message"
    [] block = "slash" -> "slash_output"
    [] OTHER -> "none"

\* agent.ts 97-127: the agent_message type a block is translated to
Outbound(block) ==
  CASE block = "tool_use" -> "tool_use"
    [] block \in {"text", "string"} -> "assistant_message"
    [] block = "slash" -> "slash_output"
    [] OTHER -> "none"

\* agent.ts 97-127, one block of the message in hand: a block that
\* translates is published and the publish awaited before the next block; a
\* throw of send is caught by the catch of line 140
TranslateBlock ==
  /\ main = "query"
  /\ pending # << >>
  /\ IF Outbound(Head(pending)) = "none"
       THEN /\ pending' = Tail(pending)
            /\ UNCHANGED <<main, outbox, busAnswer, err>>
       ELSE IF CanSend
       THEN /\ \E a \in BusAnswers : Send(Msg(Outbound(Head(pending)), ""), a)
            /\ pending' = Tail(pending)
            /\ UNCHANGED <<main, err>>
       ELSE /\ main' = "catch"
            /\ err' = ErrNoAgentChannel
            /\ pending' = << >>
            /\ UNCHANGED <<outbox, busAnswer>>
  /\ UNCHANGED <<mode, streamed>>
  /\ UNCHANGED qvars
  /\ UNCHANGED <<cvars, bvars, xvars>>

\* an end of the stream after which no run publishes 'complete'
QueryEnd_NoComplete ==
  /\ main = "query"
  /\ pending = << >>
  /\ main' = "finally"
  /\ UNCHANGED mvars
  /\ UNCHANGED qvars
  /\ UNCHANGED <<cvars, bvars, xvars>>

\* the query stream ends: the loop of line 96 is left, lines 133-137
QueryEnd ==
  /\ main = "query"
  /\ pending = << >>
  /\ main' = IF mode # "interactive" THEN "complete" ELSE "finally"
  /\ UNCHANGED mvars
  /\ UNCHANGED qvars
  /\ UNCHANGED <<cvars, bvars, xvars>>

\* the query stream throws: the catch of line 140 takes the exception
QueryThrow(e) ==
  /\ main = "query"
  /\ pending = << >>
  /\ main' = "catch"
  /\ err' = e
  /\ UNCHANGED <<mode, outbox, busAnswer, pending, streamed>>
  /\ UNCHANGED qvars
  /\ UNCHANGED <<cvars, bvars, xvars>>

\* agent.ts 135-137: a non-interactive run publishes 'complete'
AgentSendComplete ==
  /\ main = "complete"
  /\ IF CanSend
       THEN /\ \E a \in BusAnswers : Send(Msg("complete", "success"), a)
            /\ main' = "finally"
            /\ UNCHANGED err
       ELSE /\ main' = "catch"
            /\ err' = ErrNoAgentChannel
            /\ UNCHANGED <<outbox, busAnswer>>
  /\ UNCHANGED <<mode, pending, streamed>>
  /\ UNCHANGED qvars
  /\ UNCHANGED <<cvars, bvars, xvars>>

\* a catch block that goes to the teardown without publishing
AgentSendError_Silent ==
  /\ main = "catch"
  /\ err' = "none"
  /\ main' = "finally"
  /\ UNCHANGED <<mode, outbox, busAnswer, pending, streamed>>
  /\ UNCHANGED qvars
  /\ UNCHANGED <<cvars, bvars, xvars>>

\* a catch block after which a non-interactive run goes on to publish 'complete'
AgentSendError_ThenComplete ==
  /\ main = "catch"
  /\ CanSend
  /\ \E a \in BusAnswers :
       Send(Msg("error", IF err = "" THEN ErrQuery ELSE err), a)
  /\ err' = "none"
  /\ main' = IF mode # "interactive" THEN "complete" ELSE "finally"
  /\ UNCHANGED <<mode, pending, streamed>>
  /\ UNCHANGED qvars
  /\ UNCHANGED <<cvars, bvars, xvars>>

\* agent.ts 140-142: the catch block publishes 'error' with the exception's
\* message, 'Query error' if it has none; a throw of this send leaves the
\* exception uncaught behind the finally block
AgentSendError ==
  /\ main = "catch"
  /\ IF CanSend
       THEN /\ \E a \in BusAnswers :
                 Send(Msg("error", IF err = "" THEN ErrQuery ELSE err), a)
            /\ err' = "none"
       ELSE /\ err' = "uncaught"
            /\ UNCHANGED <<outbox, busAnswer>>
  /\ main' = "finally"
  /\ UNCHANGED <<mode, pending, streamed>>
  /\ UNCHANGED qvars
  /\ UNCHANGED <<cvars, bvars, xvars>>

\* a listener that enqueues without waking the parked consumer
Listener_NoWake ==
  /\ agentBus \in {"joined", "leaving"}
  /\ main \notin Exited
  /\ received < MaxMsgs
  /\ received' = received + 1
  /\ messageQueue' = Append(messageQueue, received + 1)
  /\ UNCHANGED <<gen, resolveNext>>
  /\ UNCHANGED <<connected, agentBus, yielded, main>>
  /\ UNCHANGED mvars
  /\ UNCHANGED <<cvars, bvars, xvars>>

\* the 'user_message' broadcast listener, lines 33-40
Listener ==
  /\ agentBus \in {"joined", "leaving"}
  /\ main \notin Exited
  /\ received < MaxMsgs
  /\ received' = received + 1
  /\ messageQueue' = Append(messageQueue, received + 1)
  /\ IF resolveNext
       THEN gen' = "woken" /\ resolveNext' = FALSE
       ELSE UNCHANGED <<gen, resolveNext>>
  /\ UNCHANGED <<connected, agentBus, yielded, main>>
  /\ UNCHANGED mvars
  /\ UNCHANGED <<cvars, bvars, xvars>>

\* messageQueue.pop() in place of shift(): the newest message is taken
Shift_Pop(q) == <<q[Len(q)], SubSeq(q, 1, Len(q) - 1)>>

\* messageQueue.shift(): the message taken and the queue left
Shift(q) == <<Head(q), Tail(q)>>

\* messageGenerator, lines 70-87, run from where it stands to its next
\* suspension: a yield, the await of line 84, or its end
GenRun ==
  IF ~connected
    THEN /\ gen' = "done"
         /\ UNCHANGED <<messageQueue, yielded, resolveNext>>
    ELSE IF Len(messageQueue) > 0
    THEN /\ yielded' = Append(yielded, Shift(messageQueue)[1])
         /\ messageQueue' = Shift(messageQueue)[2]
         /\ gen' = "suspended"
         /\ UNCHANGED resolveNext
    ELSE /\ gen' = "parked"
         /\ resolveNext' = TRUE
         /\ UNCHANGED <<messageQueue, yielded>>

\* the consumer (query, in interactive mode) pulls the next message:
\* generator.next()
GenNext ==
  /\ main = "query"
  /\ mode = "interactive"
  /\ gen \in {"none", "suspended"}
  /\ GenRun
  /\ UNCHANGED <<connected, agentBus, received, main>>
  /\ UNCHANGED mvars
  /\ UNCHANGED <<cvars, bvars, xvars>>

\* the promise of line 84 was resolved: the generator continues
GenResume ==
  /\ gen = "woken"
  /\ main \notin Exited
  /\ GenRun
  /\ UNCHANGED <<connected, agentBus, received, main>>
  /\ UNCHANGED mvars
  /\ UNCHANGED <<cvars, bvars, xvars>>

\* a disconnect that leaves the parked consumer waiting
AgentDisconnect_NoRelease ==
  /\ main = "finally"
  /\ connected' = FALSE
  /\ UNCHANGED <<gen, resolveNext>>
  /\ agentBus' = "leaving"
  /\ main' = "unsubscribing"
  /\ UNCHANGED <<messageQueue, received, yielded>>
  /\ UNCHANGED mvars
  /\ UNCHANGED <<cvars, bvars, xvars>>

\* AgentChannel.disconnect(), lines 89-98, called from the finally block of
\* main() (agent.ts 143-145), up to its await of unsubscribe()
AgentDisconnect ==
  /\ main = "finally"
  /\ connected' = FALSE
  /\ IF resolveNext
       THEN gen' = "woken" /\ resolveNext' = FALSE
       ELSE UNCHANGED <<gen, resolveNext>>
  /\ agentBus' = "leaving"
  /\ main' = "unsubscribing"
  /\ UNCHANGED <<messageQueue, received, yielded>>
  /\ UNCHANGED mvars
  /\ UNCHANGED <<cvars, bvars, xvars>>

\* a finally block that exits in either mode
AgentFinish_AlwaysExit ==
  /\ main = "unsubscribing"
  /\ main' = "exit0"
  /\ UNCHANGED mvars
  /\ UNCHANGED qvars
  /\ UNCHANGED <<cvars, bvars, xvars>>

\* agent.ts 146-151 and 154-157: unsubscribe() has returned; a non-interactive
\* run exits with 0, an interactive one returns from main(), and an exception
\* the catch block let through exits with 1
AgentFinish ==
  /\ main = "unsubscribing"
  /\ main' = IF mode # "interactive" THEN "exit0"
             ELSE IF err = "uncaught" THEN "exit1"
             ELSE "ended"
  /\ UNCHANGED mvars
  /\ UNCHANGED qvars
  /\ UNCHANGED <<cvars, bvars, xvars>>

AgentNext ==
  \/ \E m \in AgentModes, hasPrompt \in BOOLEAN : AgentConnect(m, hasPrompt)
  \/ AgentSubscribed
  \/ AgentSubscribeFailed
  \/ AgentStartQuery
  \/ \E m \in StreamMsgs : QueryEmit(m)
  \/ TranslateBlock
  \/ QueryEnd
  \/ \E e \in ThrownMessages : QueryThrow(e)
  \/ AgentSendComplete
  \/ AgentSendError
  \/ Listener
  \/ GenNext
  \/ GenResume
  \/ AgentDisconnect
  \/ AgentFinish

SpecAgent == Init /\ [][AgentNext]_vars

\* main() goes on after each await whose promise settles (the bus answers a
\* send and an unsubscribe, if only with 'timed out'), and a generator whose
\* promise was resolved is resumed
AgentFairness ==
  /\ WF_vars(AgentSendComplete)
  /\ WF_vars(AgentSendError)
  /\ WF_vars(AgentDisconnect)
  /\ WF_vars(AgentFinish)
  /\ WF_vars(GenResume)

SpecAgentFair == SpecAgent /\ AgentFairness

\* ---------------------------------------------------------- Session Broker
PathStart  == "/api/agent/start"
PathPrompt == "/api/agent/prompt"

PathKeepalive == "/api/agent/keepalive"

\* PROMPT_TIMEOUT_MS, line 22
PromptTimeoutMs == 5 * 60 * 1000

\* the period of the timeoutCheck interval, line 261
CheckIntervalMs == 60000

\* the grain of time: events fall on multiples of half a check period
TimeStep == CheckIntervalMs \div 2

\* the Authorization header of a request: none (or not a Bearer one), a
\* token the identity verifier rejects, a token it accepts
Tokens == {"none", "bad", "good"}

ErrNoToken   == "Missing authorization token"
ErrBadToken  == "Invalid token"
ErrBadJson   == "Invalid JSON body"
ErrNoSession == "Missing sessionId"
ErrNoPrompt  == "Missing prompt"
ErrStart     == "Failed to start agent"
ErrThrown    == "exception"

\* the handler of request r returns a response
Respond(r, status, message) ==
  [reqs EXCEPT ![r].pc = "done", ![r].status = status, ![r].error = message]

\* verifyToken, lines 33-44: the user, or null when the verifier reports an
\* error or no user or cannot be reached
verifyToken(token, reachable) == token = "good" /\ reachable

\* a body check that lets a prompt request without prompt through
Validate_NoPromptCheck(q) ==
  IF ~q.json THEN ErrBadJson
  ELSE IF q.sessionId = "" THEN ErrNoSession
  ELSE ""

\* lines 111-120 and 178-191: the body is parsed and checked; the error
\* message, "" if the body passes
Validate(q) ==
  IF ~q.json THEN ErrBadJson
  ELSE IF q.sessionId = "" THEN ErrNoSession
  ELSE IF q.path = PathPrompt /\ q.prompt = "" THEN ErrNoPrompt
  ELSE ""

\* the bodies of the requests: one that is not JSON, and JSON bodies with or
\* without sessionId and, for the prompt path, with or without prompt
Bodies(path) ==
  {[json |-> FALSE, sessionId |-> "", prompt |-> ""]} \cup
  {[json |-> TRUE, sessionId |-> s, prompt |-> p] :
     s \in SessionIds, p \in IF path = PathPrompt THEN {"", "task"} ELSE {""}}

\* fetch, lines 100-106 and 167-173: a POST to one of the two start paths
\* arrives; without a bearer token it is answered 401, with one the handler
\* awaits verifyToken
Fetch(r, path, token, body) ==
  /\ reqs[r].pc = "idle"
  /\ \A q \in 1..(r - 1) : reqs[q].pc # "idle"
  /\ LET q == [NoRequest EXCEPT !.path = path, !.token = token, !.json = body.json,
                                !.sessionId = body.sessionId, !.prompt = body.prompt]
     IN  reqs' = IF token = "none"
                   THEN [reqs EXCEPT ![r] = [q EXCEPT !.pc = "done", !.status = 401,
                                                      !.error = ErrNoToken]]
                   ELSE [reqs EXCEPT ![r] = [q EXCEPT !.pc = "verifying"]]
  /\ UNCHANGED <<sandboxFiles, processes, brokerSubs, intervals, promptTimeouts, svars>>
  /\ UNCHANGED <<cvars, avars, xvars>>

\* lines 106-128, 173-199 and 279-300: verifyToken has returned; a null user
\* is answered 401, a body that does not pass 400; otherwise the sandbox of
\* the session id is addressed (getSandbox) and the handler awaits
\* injectAgent or, for a keepalive, the exec of its no-op command
TokenVerified(r, reachable) ==
  /\ reqs[r].pc = "verifying"
  /\ reqs' =
       IF ~verifyToken(reqs[r].token, reachable) THEN Respond(r, 401, ErrBadToken)
       ELSE IF Validate(reqs[r]) # ""
         THEN [Respond(r, 400, Validate(reqs[r])) EXCEPT ![r].user = "uid"]
       ELSE IF reqs[r].path = PathKeepalive
         THEN [reqs EXCEPT ![r].pc = "exec", ![r].did = {"getSandbox", "exec"},
                           ![r].user = "uid"]
       ELSE [reqs EXCEPT ![r].pc = "injecting", ![r].did = {"getSandbox"},
                         ![r].user = "uid"]
  /\ UNCHANGED <<sandboxFiles, processes, brokerSubs, intervals, promptTimeouts, svars>>
  /\ UNCHANGED <<cvars, avars, xvars>>

\* injectAgent, lines 6-8, 128 and 199: writeFile has put agent.js into the
\* sandbox and the handler awaits startProcess; an exception of writeFile
\* leaves fetch
Injected(r, ok) ==
  /\ reqs[r].pc = "injecting"
  /\ IF ok
       THEN /\ sandboxFiles' = sandboxFiles \cup {reqs[r].sessionId}
            /\ reqs' = [reqs EXCEPT ![r].pc = "starting",
                                    ![r].did = @ \cup {"writeFile", "startProcess"}]
       ELSE /\ reqs' = [Respond(r, 500, ErrThrown) EXCEPT ![r].did = @ \cup {"writeFile"}]
            /\ UNCHANGED sandboxFiles
  /\ UNCHANGED <<processes, brokerSubs, intervals, promptTimeouts, svars>>
  /\ UNCHANGED <<cvars, avars, xvars>>

\* a prompt handler that sets its supervisor up whether or not the process
\* started
ProcessStarted_SupervisorFirst(r, ok) ==
  /\ reqs[r].pc = "starting"
  /\ reqs[r].path = PathPrompt
  /\ brokerSubs' = brokerSubs \cup {r}
  /\ intervals' = intervals \cup {r}
  /\ promptTimeouts' = [promptTimeouts EXCEPT ![reqs[r].sessionId] = r]
  /\ reqs' = IF ok THEN Respond(r, 200, "") ELSE Respond(r, 500, ErrStart)
  /\ processes' = IF ok THEN [processes EXCEPT ![reqs[r].sessionId] = @ + 1] ELSE processes
  /\ UNCHANGED <<sandboxFiles, svars>>
  /\ UNCHANGED <<cvars, avars, xvars>>

\* lines 142-163 and 214-269: startProcess has returned or thrown. A throw is
\* answered 500. After a start the interactive handler answers 'started';
\* the prompt handler first subscribes its observing channel, sets the
\* timeoutCheck interval and stores its handle under the session id
ProcessStarted(r, ok) ==
  /\ reqs[r].pc = "starting"
  /\ IF ~ok
       THEN /\ reqs' = Respond(r, 500, ErrStart)
            /\ UNCHANGED <<processes, brokerSubs, intervals, promptTimeouts, sup, sandbox>>
       ELSE /\ processes' = [processes EXCEPT ![reqs[r].sessionId] = @ + 1]
            /\ sandbox' = [sandbox EXCEPT ![reqs[r].sessionId] = "running"]
            /\ IF reqs[r].path = PathPrompt
                 THEN /\ brokerSubs' = brokerSubs \cup {r}
                      /\ intervals' = intervals \cup {r}
                      /\ promptTimeouts' = [promptTimeouts EXCEPT ![reqs[r].sessionId] = r]
                      /\ sup' = [sup EXCEPT ![r] = [NoSupervisor EXCEPT
                                    !.stage = "watching", !.untilCheck = CheckIntervalMs]]
                      /\ reqs' = [Respond(r, 200, "") EXCEPT
                                    ![r].did = @ \cup {"subscribe", "setInterval"}]
                 ELSE /\ reqs' = Respond(r, 200, "")
                      /\ UNCHANGED <<brokerSubs, intervals, promptTimeouts, sup>>
  /\ UNCHANGED <<sandboxFiles, casts>>
  /\ UNCHANGED <<cvars, avars, xvars>>

\* a keepalive that answers 500 when its exec throws
KeepaliveDone_FailsHard(r, ok) ==
  /\ reqs[r].pc = "exec"
  /\ reqs' = IF ok THEN Respond(r, 200, "") ELSE Respond(r, 500, ErrThrown)
  /\ UNCHANGED <<sandboxFiles, processes, brokerSubs, intervals, promptTimeouts, svars>>
  /\ UNCHANGED <<cvars, avars, xvars>>

\* keepalive, lines 299-306: the exec has returned or thrown; either way the
\* answer is {status: 'ok'}
KeepaliveDone(r, ok) ==
  /\ reqs[r].pc = "exec"
  /\ reqs' = IF ok THEN Respond(r, 200, "")
             ELSE [Respond(r, 200, "") EXCEPT ![r].did = @ \cup {"logExecFailed"}]
  /\ UNCHANGED <<sandboxFiles, processes, brokerSubs, intervals, promptTimeouts, svars>>
  /\ UNCHANGED <<cvars, avars, xvars>>

\* the supervisors for which time counts: watching or tearing down
Timed == {r \in Reqs : sup[r].stage \in {"watching", "unsubscribing", "destroying"}}

\* silence is Date.now() - lastActivity; it is followed up to this value
MaxSilence == PromptTimeoutMs + CheckIntervalMs

\* time passes by one grain, unless a timeoutCheck is due now; a request
\* handler's awaits (verifyToken, writeFile, startProcess, exec) return
\* within the grain in which the request arrived
Advance ==
  /\ Timed # {}
  /\ \A r \in Reqs : reqs[r].pc \in {"idle", "done"}
  /\ \A r \in intervals : sup[r].untilCheck > 0
  /\ sup' = [r \in Reqs |->
               IF r \notin Timed THEN sup[r]
               ELSE [sup[r] EXCEPT
                       !.silence = IF @ + TimeStep > MaxSilence THEN MaxSilence
                                   ELSE @ + TimeStep,
                       !.untilCheck = IF r \in intervals THEN @ - TimeStep ELSE @]]
  /\ UNCHANGED <<reqs, sandboxFiles, processes, brokerSubs, intervals, promptTimeouts,
                 sandbox, casts>>
  /\ UNCHANGED <<cvars, avars, xvars>>

\* a broadcast is published on the channel of session s. The listener of
\* lines 241-243, bound to the event 'agent_message', sets lastActivity to
\* now in every supervisor whose subscription to s is open or being closed
Broadcast(s, event) ==
  /\ casts < MaxCasts
  /\ casts' = casts + 1
  /\ sup' = [r \in Reqs |->
               IF /\ event = "agent_message"
                  /\ (r \in brokerSubs \/ sup[r].stage = "unsubscribing")
                  /\ reqs[r].sessionId = s
                 THEN [sup[r] EXCEPT !.silence = 0]
                 ELSE sup[r]]
  /\ UNCHANGED <<reqs, sandboxFiles, processes, brokerSubs, intervals, promptTimeouts,
                 sandbox>>
  /\ UNCHANGED <<cvars, avars, xvars>>

\* a timeoutCheck that clears its interval only after its awaits
Tick_ClearsLate(r) ==
  /\ r \in intervals
  /\ sup[r].untilCheck = 0
  /\ IF sup[r].silence >= PromptTimeoutMs
       THEN /\ promptTimeouts' = [promptTimeouts EXCEPT ![reqs[r].sessionId] = NoRef]
            /\ brokerSubs' = brokerSubs \ {r}
            /\ sup' = [sup EXCEPT ![r].stage = "unsubscribing",
                                  ![r].unsubscribes = @ + 1,
                                  ![r].untilCheck = CheckIntervalMs]
       ELSE /\ sup' = [sup EXCEPT ![r].untilCheck = CheckIntervalMs]
            /\ UNCHANGED <<brokerSubs, promptTimeouts>>
  /\ UNCHANGED <<reqs, sandboxFiles, processes, intervals, sandbox, casts>>
  /\ UNCHANGED <<cvars, avars, xvars>>

\* timeoutCheck, lines 248-254: the interval of supervisor r fires. After
\* PROMPT_TIMEOUT_MS of silence it clears its interval, deletes the table
\* entry of its session id and calls unsubscribe, which it awaits
Tick(r) ==
  /\ r \in intervals
  /\ sup[r].untilCheck = 0
  /\ IF sup[r].silence >= PromptTimeoutMs
       THEN /\ intervals' = intervals \ {r}
            /\ promptTimeouts' = [promptTimeouts EXCEPT ![reqs[r].sessionId] = NoRef]
            /\ brokerSubs' = brokerSubs \ {r}
            /\ sup' = [sup EXCEPT ![r].stage = "unsubscribing",
                                  ![r].unsubscribes = @ + 1]
       ELSE /\ sup' = [sup EXCEPT ![r].untilCheck = CheckIntervalMs]
            /\ UNCHANGED <<intervals, brokerSubs, promptTimeouts>>
  /\ UNCHANGED <<reqs, sandboxFiles, processes, sandbox, casts>>
  /\ UNCHANGED <<cvars, avars, xvars>>

\* timeoutCheck, lines 254-256: unsubscribe has returned; destroy is called
Unsubscribed(r) ==
  /\ sup[r].stage = "unsubscribing"
  /\ sup' = [sup EXCEPT ![r].stage = "destroying", ![r].destroys = @ + 1]
  /\ UNCHANGED <<reqs, sandboxFiles, processes, brokerSubs, intervals, promptTimeouts,
                 sandbox, casts>>
  /\ UNCHANGED <<cvars, avars, xvars>>

\* timeoutCheck, lines 255-259: destroy has returned, or thrown and the
\* exception is logged; the supervisor is over and its lastActivity is no
\* longer followed
Destroyed(r, ok) ==
  /\ sup[r].stage = "destroying"
  /\ sup' = [sup EXCEPT ![r].stage = "done", ![r].silence = 0]
  /\ sandbox' = IF ok THEN [sandbox EXCEPT ![reqs[r].sessionId] = "destroyed"]
                ELSE sandbox
  /\ UNCHANGED <<reqs, sandboxFiles, processes, brokerSubs, intervals, promptTimeouts,
                 casts>>
  /\ UNCHANGED <<cvars, avars, xvars>>

\* the agent process of session s exits by itself (agent.ts 146-148)
AgentExit(s) ==
  /\ sandbox[s] = "running"
  /\ sandbox' = [sandbox EXCEPT ![s] = "exited"]
  /\ UNCHANGED <<reqs, sandboxFiles, processes, brokerSubs, intervals, promptTimeouts,
                 sup, casts>>
  /\ UNCHANGED <<cvars, avars, xvars>>

\* the requests of a single-shot session with its keepalives: an accepted
\* credential and a complete body
SessionRequest(path) ==
  [json |-> TRUE, sessionId |-> "s1", prompt |-> IF path = PathPrompt THEN "task" ELSE ""]

SupervisorNext ==
  \/ \E r \in Reqs, path \in {PathPrompt, PathKeepalive} :
       Fetch(r, path, "good", SessionRequest(path))
  \/ \E r \in Reqs : TokenVerified(r, TRUE)
  \/ \E r \in Reqs : Injected(r, TRUE)
  \/ \E r \in Reqs, ok \in BOOLEAN : ProcessStarted(r, ok)
  \/ \E r \in Reqs, ok \in BOOLEAN : KeepaliveDone(r, ok)
  \/ Advance
  \/ \E e \in {"agent_message", "user_message"} : Broadcast("s1", e)
  \/ \E r \in Reqs : Tick(r)
  \/ \E r \in Reqs : Unsubscribed(r)
  \/ \E r \in Reqs, ok \in BOOLEAN : Destroyed(r, ok)
  \/ AgentExit("s1")

SpecSupervisor == Init /\ [][SupervisorNext]_vars

\* time goes on, a due timeoutCheck fires, and the calls a handler or a
\* timeoutCheck awaits return
SupervisorFairness ==
  /\ WF_vars(Advance)
  /\ WF_vars(\E r \in Reqs : Tick(r))
  /\ WF_vars(\E r \in Reqs : Unsubscribed(r))
  /\ WF_vars(\E r \in Reqs, ok \in BOOLEAN : Destroyed(r, ok))
  /\ WF_vars(\E r \in Reqs : TokenVerified(r, TRUE))
  /\ WF_vars(\E r \in Reqs : Injected(r, TRUE))
  /\ WF_vars(\E r \in Reqs, ok \in BOOLEAN : ProcessStarted(r, ok))
  /\ WF_vars(\E r \in Reqs, ok \in BOOLEAN : KeepaliveDone(r, ok))

SpecSupervisorFair == SpecSupervisor /\ SupervisorFairness

\* ------------------------------------------------- a session, end to end
\* The hook, the broker and the sandbox agent of one session "s1". link.pc is
\* the hook's position: "idle", "awaiting" (await connectChannel), "posted"
\* (await fetch), "started", "failed" (the catch block ran).
SessionPath == IF link.kind = "prompt" THEN PathPrompt ELSE PathStart

\* the session ids of the runs of usePrompt, one crypto.randomUUID() per
\* runPrompt call (usePrompt.ts 95)
RunIds == <<"s1", "s2">>

\* the session id of the hook's current request: useChat keeps one id, usePrompt
\* has a new one for each run
SessionId == IF link.kind = "prompt" THEN RunIds[link.posts] ELSE "s1"

\* connectChannel has created a channel in this step: it is named name
Named(name) ==
  IF channelRef' # channelRef THEN [Link.named EXCEPT ![channelRef'] = name]
  ELSE Link.named

\* the promise the hook awaits has resolved / rejected; connectChannel on a
\* held channel returns a promise that is resolved already
AwaitResolved ==
  /\ link.kind # "none"
  /\ link.pc = "awaiting"
  /\ link.imm \/ promise[link.ch] = "resolved"

AwaitRejected ==
  /\ link.kind # "none"
  /\ link.pc = "awaiting"
  /\ ~link.imm
  /\ promise[link.ch] = "rejected"

\* useChat.connect, part_003 117-128: not while a connect is running
\* (isConnectingRef); the channel is subscribed first
ChatConnect ==
  /\ mounted
  /\ link.kind \in {"none", "chat"}
  /\ Link.pc \in {"idle", "failed", "started"}
  /\ connectChannel("s1")
  /\ link' = [Link EXCEPT !.kind = "chat", !.pc = "awaiting",
                          !.ch = channelRef', !.imm = (channelRef # NoRef),
                          !.named = Named("s1")]
  /\ UNCHANGED <<avars, bvars, stale, recon, srv>>

\* part_003 128-139: connectChannel has resolved, the start request is sent
ChatSubscribed ==
  /\ link.kind = "chat"
  /\ AwaitResolved
  /\ link.posts < MaxReqs
  /\ link' = [link EXCEPT !.pc = "posted", !.posts = @ + 1]
  /\ UNCHANGED <<cvars, avars, bvars, stale, recon, srv>>

\* part_003 150-159: connectChannel has rejected, the catch block runs
ChatSubscribeFailed ==
  /\ link.kind = "chat"
  /\ AwaitRejected
  /\ link' = [link EXCEPT !.pc = "failed"]
  /\ UNCHANGED <<cvars, avars, bvars, stale, recon, srv>>

\* part_003 141-159: the response of the start request has arrived
ChatResponse ==
  /\ link.kind = "chat"
  /\ link.pc = "posted"
  /\ reqs[link.posts].pc = "done"
  /\ link' = [link EXCEPT !.pc = IF reqs[link.posts].status = 200
                                   THEN "started" ELSE "failed"]
  /\ UNCHANGED <<cvars, avars, bvars, stale, recon, srv>>

\* usePrompt.runPrompt, usePrompt.ts 83-116: not while a prompt is running
\* (runningRef); the prompt request is sent first
PromptRun ==
  /\ mounted
  /\ link.kind \in {"none", "prompt"}
  /\ Link.pc \in {"idle", "failed", "complete"}
  /\ Link.posts < MaxReqs
  /\ Link.posts < Len(RunIds)
  /\ link' = [Link EXCEPT !.kind = "prompt", !.pc = "posted", !.posts = @ + 1]
  /\ UNCHANGED <<cvars, avars, bvars, stale, recon, srv>>

\* usePrompt.ts 118-132: the response has arrived; when it is ok the channel is
\* subscribed, otherwise the catch block runs
PromptResponse ==
  /\ link.kind = "prompt"
  /\ link.pc = "posted"
  /\ reqs[link.posts].pc = "done"
  /\ IF reqs[link.posts].status = 200
       THEN /\ connectChannel(SessionId)
            /\ link' = [link EXCEPT !.pc = "awaiting", !.ch = channelRef',
                                    !.imm = (channelRef # NoRef),
                                    !.named = Named(SessionId)]
       ELSE /\ link' = [link EXCEPT !.pc = "failed"]
            /\ UNCHANGED cvars
  /\ UNCHANGED <<avars, bvars, stale, recon, srv>>

\* usePrompt.ts 126-133: connectChannel has resolved, runPrompt returns
PromptSubscribed ==
  /\ link.kind = "prompt"
  /\ AwaitResolved
  /\ link' = [link EXCEPT !.pc = "started"]
  /\ UNCHANGED <<cvars, avars, bvars, stale, recon, srv>>

\* usePrompt.ts 127-132: connectChannel has rejected, the catch block runs
PromptSubscribeFailed ==
  /\ link.kind = "prompt"
  /\ AwaitRejected
  /\ link' = [link EXCEPT !.pc = "failed"]
  /\ UNCHANGED <<cvars, avars, bvars, stale, recon, srv>>

\* the client has received a SUBSCRIBED: each one it handles starts a
\* ready-wait timer (useChannel.ts 113-123)
EverSubscribed == \E t \in Timers : timer[t] # "unset"

\* the bus fans the agent's 'ready' (agent.ts 52) out to the client channels
\* that are subscribed when it arrives; a broadcast is not stored for later
\* subscribers. link.early: it arrived before the client had ever subscribed
BusRelay ==
  /\ link.kind # "none"
  /\ \E i \in 1..Len(outbox) : outbox[i].type = "ready"
  /\ ~link.relayed
  /\ link' = [link EXCEPT !.relayed = TRUE, !.early = ~EverSubscribed,
                          !.readyFor = {c \in Channels : /\ bus[c] \in {"joined", "leaving"}
                                                         /\ link.named[c] = "s1"}]
  /\ UNCHANGED <<cvars, avars, bvars, stale, recon, srv>>

\* the 'complete' of the agent of session "s1" is delivered to the client
\* channel c of that name; handleComplete (usePrompt.ts 58-63) ends the run
PromptComplete(c) ==
  /\ link.kind = "prompt"
  /\ link.pc = "started"
  /\ link.relayed
  /\ ~link.completed
  /\ link.named[c] = "s1"
  /\ onAgentMessage(c, "complete")
  /\ link' = [link EXCEPT !.pc = "complete", !.completed = TRUE]
  /\ UNCHANGED <<avars, bvars, stale, recon, srv>>

\* The continuation of an await runs as soon as its promise has settled,
\* before any other callback: nothing else happens in between.
AwaitSettled == AwaitResolved \/ AwaitRejected

SessionNext ==
  \/ ChatSubscribed
  \/ ChatSubscribeFailed
  \/ PromptSubscribed
  \/ PromptSubscribeFailed
  \/ ~AwaitSettled /\ ChatConnect
  \/ ~AwaitSettled /\ ChatResponse
  \/ ~AwaitSettled /\ PromptRun
  \/ ~AwaitSettled /\ PromptResponse
  \/ ~AwaitSettled /\ link.kind # "none" /\ link.pc = "posted"
       /\ Fetch(link.posts, SessionPath, "good",
                [SessionRequest(SessionPath) EXCEPT !.sessionId = SessionId])
  \/ ~AwaitSettled /\ \E r \in Reqs, reachable \in BOOLEAN : TokenVerified(r, reachable)
  \/ ~AwaitSettled /\ \E r \in Reqs : Injected(r, TRUE)
  \/ ~AwaitSettled /\ \E r \in Reqs, ok \in BOOLEAN : ProcessStarted(r, ok)
  \/ ~AwaitSettled /\ sandbox["s1"] = "running" /\ link.kind = "chat"
       /\ AgentConnect("interactive", FALSE)
  \/ ~AwaitSettled /\ sandbox["s1"] = "running" /\ link.kind = "prompt"
       /\ AgentConnect("non-interactive", TRUE)
  \/ ~AwaitSettled /\ AgentSubscribed
  \/ ~AwaitSettled /\ AgentSubscribeFailed
  \/ ~AwaitSettled /\ BusRelay
  \/ ~AwaitSettled /\ \E c \in Channels : PromptComplete(c)
  \/ ~AwaitSettled /\ link.kind # "none"
       /\ \E c \in link.readyFor : ~readySeen[c] /\ agent_message(c, "ready")
  \/ ~AwaitSettled /\ \E c \in Channels : StatusSubscribed(c)
  \/ ~AwaitSettled /\ \E c \in Channels : StatusChannelError(c)
  \/ ~AwaitSettled /\ \E c \in Channels : StatusTimedOut(c)
  \/ ~AwaitSettled /\ \E t \in Timers : ReadyTimeout(t)

SpecSession == Init /\ [][SessionNext]_vars

\* ------------------------------ WebSocket chat client with stale detection
\* hooks/useChat.ts. stale.ready is each socket's readyState ("none" for a slot
\* without a socket), stale.silence is Date.now() - lastActivity of the
\* current connect call, stale.until the time to the next stale check,
\* stale.made counts the sockets created and stale.by names the last event.
StaleAfterMs == 45000
StaleCheckMs == 10000
StaleStep == StaleCheckMs \div 2
StaleMaxSilence == StaleAfterMs + StaleCheckMs
Triggers == {"mount", "call", "visibility"}

\* ws.close(): CONNECTING and OPEN become CLOSING, line 77
closeSocket(ready, s) ==
  IF s # NoRef /\ ready[s] \in {"connecting", "open"}
    THEN [ready EXCEPT ![s] = "closing"] ELSE ready

\* connect(), lines 41-79: called by the mount effect (188-191), by the
\* component (221) or by the visibilitychange handler (205-208)
StaleConnect(trigger) ==
  /\ (trigger = "mount") = (stale.made = 0)
  /\ LET hook == StaleHook IN
     IF hook.wsRef # NoRef /\ hook.ready[hook.wsRef] \in {"open", "connecting"}
       THEN stale' = [hook EXCEPT !.by = trigger]
       ELSE \E s \in Sockets :
            /\ hook.ready[s] \in {"none", "closed"}
            /\ stale' = [hook EXCEPT !.wsRef = s, !.ready[s] = "connecting",
                                      !.checking = TRUE, !.silence = 0,
                                      !.until = StaleCheckMs, !.wasEver = FALSE,
                                      !.state = "connecting", !.lost = FALSE,
                                      !.made = IF @ < MaxSockets THEN @ + 1 ELSE @,
                                      !.by = trigger]
  /\ UNCHANGED <<cvars, avars, bvars, link, recon, srv>>

\* ws.onopen, lines 81-83
StaleOpen(s) ==
  /\ stale.made > 0
  /\ stale.ready[s] = "connecting"
  /\ stale' = [stale EXCEPT !.ready[s] = "open", !.by = "open",
                            !.silence = IF s = stale.wsRef THEN 0 ELSE @]
  /\ UNCHANGED <<cvars, avars, bvars, link, recon, srv>>

\* ws.onmessage, lines 85-135: delivered only while the socket is OPEN
StaleMessage(s, type) ==
  /\ stale.made > 0
  /\ stale.ready[s] = "open"
  /\ stale' = [stale EXCEPT !.silence = IF s = stale.wsRef THEN 0 ELSE @,
                            !.wasEver = IF type = "ready" /\ s = stale.wsRef THEN TRUE ELSE @,
                            !.state = IF type = "ready" THEN "connected" ELSE @,
                            !.by = "message"]
  /\ UNCHANGED <<cvars, avars, bvars, link, recon, srv>>

\* time passes while a socket exists; a stale check that is due runs first
StaleAdvance ==
  /\ stale.made > 0
  /\ stale.wsRef # NoRef
  /\ stale.checking => stale.until > 0
  /\ stale' = [stale EXCEPT
                 !.silence = IF @ + StaleStep > StaleMaxSilence
                               THEN StaleMaxSilence ELSE @ + StaleStep,
                 !.until = IF stale.checking THEN @ - StaleStep ELSE @,
                 !.by = "time"]
  /\ UNCHANGED <<cvars, avars, bvars, link, recon, srv>>

\* a stale check that closes at 45 s sharp
StaleCheck_AtLeast ==
  /\ stale.made > 0
  /\ stale.checking
  /\ stale.until = 0
  /\ IF stale.silence >= StaleAfterMs
       THEN stale' = [stale EXCEPT !.checking = FALSE, !.state = "disconnected",
                                  !.lost = TRUE,
                                  !.ready = closeSocket(stale.ready, stale.wsRef),
                                  !.by = "stale"]
       ELSE stale' = [stale EXCEPT !.until = StaleCheckMs, !.by = "check"]
  /\ UNCHANGED <<cvars, avars, bvars, link, recon, srv>>

\* the stale check, lines 69-79
StaleCheck ==
  /\ stale.made > 0
  /\ stale.checking
  /\ stale.until = 0
  /\ IF stale.silence > StaleAfterMs
       THEN stale' = [stale EXCEPT !.checking = FALSE, !.state = "disconnected",
                                  !.lost = TRUE,
                                  !.ready = closeSocket(stale.ready, stale.wsRef),
                                  !.by = "stale"]
       ELSE stale' = [stale EXCEPT !.until = StaleCheckMs, !.by = "check"]
  /\ UNCHANGED <<cvars, avars, bvars, link, recon, srv>>

\* an onclose without the test of line 145
StaleClosed_Unguarded(s) ==
  /\ stale.made > 0
  /\ stale.ready[s] \in {"connecting", "open", "closing"}
  /\ stale' = [stale EXCEPT !.ready[s] = "closed", !.checking = FALSE,
                            !.wsRef = NoRef, !.state = "disconnected",
                            !.lost = (@ \/ stale.wasEver), !.until = 0,
                            !.silence = 0, !.by = "close"]
  /\ UNCHANGED <<cvars, avars, bvars, link, recon, srv>>

\* ws.onclose, lines 141-158: the socket has closed (by the server, the
\* network, or after the local close)
StaleClosed(s) ==
  /\ stale.made > 0
  /\ stale.ready[s] \in {"connecting", "open", "closing"}
  /\ IF stale.wsRef = s
       THEN stale' = [stale EXCEPT !.ready[s] = "closed", !.checking = FALSE,
                                  !.wsRef = NoRef, !.state = "disconnected",
                                  !.lost = (@ \/ stale.wasEver), !.until = 0,
                                  !.silence = 0, !.by = "close"]
       ELSE stale' = [stale EXCEPT !.ready[s] = "closed", !.by = "close"]
  /\ UNCHANGED <<cvars, avars, bvars, link, recon, srv>>

StaleNext ==
  \/ \E trigger \in Triggers : StaleConnect(trigger)
  \/ \E s \in Sockets : StaleOpen(s)
  \/ \E s \in Sockets, type \in {"ready", "heartbeat"} : StaleMessage(s, type)
  \/ StaleAdvance
  \/ StaleCheck
  \/ \E s \in Sockets : StaleClosed(s)

SpecStale == Init /\ [][StaleNext]_vars

\* ------------------------------------- auto-reconnecting WebSocket client
\* part_005. recon.attempts is reconnectAttemptsRef, recon.timers counts the
\* reconnect timers pending, recon.refd tells that the timer held in
\* reconnectTimeoutRef is one of them, recon.delay is the delay of the
\* reconnect scheduled last, recon.log is the history of opens and abnormal
\* closes, recon.off tells that disconnect() was called and connect() has not
\* been called by the component since.
ReconBaseMs == 1000
ReconCapMs == 30000

Min(a, b) == IF a <= b THEN a ELSE b

\* line 135: Math.min(1000 * Math.pow(2, attempts), 30000)
ReconDelay(attempts) == Min(ReconBaseMs * 2 ^ attempts, ReconCapMs)

\* connect(), lines 86-104, 150
reconConnect(r) ==
  IF r.wsRef # NoRef /\ r.ready[r.wsRef] \in {"open", "connecting"}
    THEN {r}
    ELSE {[r EXCEPT !.wsRef = s, !.ready[s] = "connecting", !.state = "connecting"] :
            s \in {t \in Sockets : r.ready[t] \in {"none", "closed"}}}

\* connect called by the mount effect (199-202) or by the component (221)
ReconConnect ==
  /\ recon' \in reconConnect([ReconHook EXCEPT !.off = FALSE])
  /\ UNCHANGED <<cvars, avars, bvars, link, stale, srv>>

\* ws.onopen that keeps the attempts counted
ReconOpen_NoReset(s) ==
  /\ recon.state # "unmounted"
  /\ recon.ready[s] = "connecting"
  /\ Len(recon.log) < MaxWsEvents
  /\ recon' = [recon EXCEPT !.ready[s] = "open", !.log = Append(@, "open")]
  /\ UNCHANGED <<cvars, avars, bvars, link, stale, srv>>

\* ws.onopen, lines 106-109
ReconOpen(s) ==
  /\ recon.state # "unmounted"
  /\ recon.ready[s] = "connecting"
  /\ Len(recon.log) < MaxWsEvents
  /\ recon' = [recon EXCEPT !.ready[s] = "open", !.attempts = 0,
                            !.log = Append(@, "open")]
  /\ UNCHANGED <<cvars, avars, bvars, link, stale, srv>>

\* ws.onmessage with a 'ready', lines 111-119 and 53-58
ReconReady(s) ==
  /\ recon.state # "unmounted"
  /\ recon.ready[s] = "open"
  /\ recon.state # "connected"
  /\ recon' = [recon EXCEPT !.state = "connected"]
  /\ UNCHANGED <<cvars, avars, bvars, link, stale, srv>>

\* ws.onclose, lines 129-148: a close with code 1000 (clean) ends there, any
\* other close schedules a reconnect; a socket that never opened cannot close
\* cleanly
ReconClosed(s, clean) ==
  /\ recon.state # "unmounted"
  /\ recon.ready[s] \in {"connecting", "open", "closing", "aborting"}
  /\ clean => recon.ready[s] \in {"open", "closing"}
  /\ IF clean
       THEN recon' = [recon EXCEPT !.ready[s] = "closed", !.wsRef = NoRef,
                                  !.state = "disconnected"]
       ELSE /\ Len(recon.log) < MaxWsEvents
            /\ recon' = [recon EXCEPT !.ready[s] = "closed", !.wsRef = NoRef,
                                      !.state = "reconnecting",
                                      !.delay = ReconDelay(recon.attempts),
                                      !.attempts = @ + 1,
                                      !.timers = @ + 1,
                                      !.refd = TRUE,
                                      !.log = Append(@, "fail")]
  /\ UNCHANGED <<cvars, avars, bvars, link, stale, srv>>

\* a reconnect timer fires, lines 144-146: connect(). own: it is the timer
\* held in reconnectTimeoutRef (the one scheduled last)
ReconTimer(own) ==
  /\ recon.state # "unmounted"
  /\ recon.timers > 0
  /\ own => recon.refd
  /\ ~own => recon.timers > (IF recon.refd THEN 1 ELSE 0)
  /\ recon' \in reconConnect([recon EXCEPT !.timers = @ - 1,
                                           !.refd = IF own THEN FALSE ELSE @])
  /\ UNCHANGED <<cvars, avars, bvars, link, stale, srv>>

\* disconnect(), lines 186-196: the timer in reconnectTimeoutRef is cleared
\* if it is still pending, the current socket is closed with code 1000 and
\* forgotten
ReconDisconnect ==
  /\ recon.state # "unmounted"
  /\ recon' = [recon EXCEPT
                 !.timers = IF recon.refd THEN @ - 1 ELSE @,
                 !.refd = FALSE,
                 !.ready = IF recon.wsRef = NoRef THEN @
                           ELSE [@ EXCEPT ![recon.wsRef] =
                                   IF @ = "open" THEN "closing"
                                   ELSE IF @ = "connecting" THEN "aborting" ELSE @],
                 !.wsRef = NoRef,
                 !.state = "disconnected",
                 !.off = TRUE]
  /\ UNCHANGED <<cvars, avars, bvars, link, stale, srv>>

ReconNext ==
  \/ ReconConnect
  \/ \E s \in Sockets : ReconOpen(s)
  \/ \E s \in Sockets : ReconReady(s)
  \/ \E s \in Sockets, clean \in BOOLEAN : ReconClosed(s, clean)
  \/ \E own \in BOOLEAN : ReconTimer(own)
  \/ ReconDisconnect

SpecRecon == Init /\ [][ReconNext]_vars

\* ------------------------------------------------ WebSocket sandbox server
\* worker/sandbox/server.js, one connection with a token and a user id.
\* srv.h is the position of the 'message' handler of each user message, by
\* arrival number: "none", "init" (suspended in the initialisation of lines
\* 312-322), "done". srv.servers counts the tool servers created, srv.gen is
\* messageGenerator: "none", "pulling" (asked for the next message), "parked"
\* (awaiting resolveNext), "ended".

\* lines 326-344: the message is queued, a parked generator is woken and the
\* query session is started unless it was
queueMessage(s, m) ==
  [s EXCEPT !.h[m] = "done",
            !.messageQueue = Append(@, m),
            !.resolveNext = FALSE,
            !.gen = IF s.resolveNext THEN "pulling"
                    ELSE IF ~s.queryStarted THEN "pulling" ELSE @,
            !.queryStarted = TRUE]

\* wss.on('connection'), lines 145-181
WsConnection ==
  /\ srv.conn = "none"
  /\ srv' = SrvConnected
  /\ UNCHANGED <<cvars, avars, bvars, link, stale, recon>>

\* ws.on('message'), lines 295-324: the next user message arrives. With the
\* tool server in place it is queued at once; otherwise the handler starts
\* the initialisation and is suspended in it
WsMessage(m) ==
  /\ srv.conn = "open"
  /\ m = srv.arrived + 1
  /\ srv' = IF srv.servers > 0
              THEN queueMessage([srv EXCEPT !.arrived = m], m)
              ELSE [srv EXCEPT !.arrived = m, !.h[m] = "init"]
  /\ UNCHANGED <<cvars, avars, bvars, link, stale, recon>>

\* lines 312-344: the modules the handler of message m awaited are loaded
\* and its tool server is created; the handler goes on to queue its message
WsInitialised(m) ==
  /\ srv.conn # "none"
  /\ srv.h[m] = "init"
  /\ srv' = queueMessage([srv EXCEPT !.servers = @ + 1], m)
  /\ UNCHANGED <<cvars, avars, bvars, link, stale, recon>>

\* messageGenerator, lines 184-195: one turn of its loop
WsGenerate ==
  /\ srv.conn # "none"
  /\ srv.gen = "pulling"
  /\ srv' = IF srv.queryEnded \/ srv.conn # "open"
              THEN [srv EXCEPT !.gen = "ended"]
            ELSE IF srv.messageQueue # <<>>
              THEN [srv EXCEPT !.yielded = Append(@, Head(srv.messageQueue)),
                               !.messageQueue = Tail(@)]
              ELSE [srv EXCEPT !.gen = "parked", !.resolveNext = TRUE]
  /\ UNCHANGED <<cvars, avars, bvars, link, stale, recon>>

\* ws.on('close'), lines 355-363
WsClose ==
  /\ srv.conn = "open"
  /\ srv' = [srv EXCEPT !.conn = "closed", !.queryEnded = TRUE,
                        !.resolveNext = FALSE,
                        !.gen = IF srv.resolveNext THEN "pulling" ELSE @]
  /\ UNCHANGED <<cvars, avars, bvars, link, stale, recon>>

ServerNext ==
  \/ WsConnection
  \/ \E m \in WsMsgs : WsMessage(m)
  \/ \E m \in WsMsgs : WsInitialised(m)
  \/ WsGenerate
  \/ WsClose

SpecServer == Init /\ [][ServerNext]_vars

BrokerNext ==
  \/ \E r \in Reqs, path \in {PathStart, PathPrompt}, token \in Tokens :
       \E body \in Bodies(path) : Fetch(r, path, token, body)
  \/ \E r \in Reqs, reachable \in BOOLEAN : TokenVerified(r, reachable)
  \/ \E r \in Reqs, ok \in BOOLEAN : Injected(r, ok)
  \/ \E r \in Reqs, ok \in BOOLEAN : ProcessStarted(r, ok)

SpecBroker == Init /\ [][BrokerNext]_vars

Next ==
  \/ ChannelNext \/ AgentNext \/ BrokerNext \/ SupervisorNext
  \/ SessionNext \/ StaleNext \/ ReconNext \/ ServerNext

Spec == Init /\ [][Next]_vars

\* =================================================================== claims
IsConnect(l) == l.ev \in {"connect:" \o n : n \in ChannelNames}

\* C1: sendMessage publishes a user_message on the bus only when the client
\* state is 'connected'; called in state 'disconnected' or 'connecting' it
\* publishes nothing, returns false and sets the error to 'Not connected'.
C1_SendOnlyWhenConnected ==
  [][last'.ev = "sendMessage" =>
       /\ last'.cb = "user_message" => state = "connected"
       /\ state \in {"disconnected", "connecting"} =>
            /\ last'.cb = "none"
            /\ last'.ret = "false"
            /\ error' = ErrNotConn]_vars

\* C1 witness: a sendMessage call was refused while the client, holding a
\* channel, was still 'connecting'.
C1_Witness ==
  /\ last.ev = "sendMessage"
  /\ state = "connecting"
  /\ channelRef # NoRef
  /\ last.ret = "false"
  /\ error = ErrNotConn

\* C2: the state of a mounted client never goes from 'disconnected' directly
\* to 'connected'; every entry into 'connected' is taken from 'connecting'.
C2_NeverSkipsConnecting ==
  [][(mounted /\ mounted' /\ state = "disconnected") => state' # "connected"]_vars

\* C3: a further 'ready' received on the channel the client holds, after a
\* first 'ready' on that channel, leaves the state unchanged.
C3_SecondReadyNoOp ==
  [][(/\ mounted /\ mounted'
      /\ last'.ev = "agent_message" /\ last'.ret = "ready"
      /\ channelRef = last'.ch
      /\ readySeen[last'.ch]) => state' = state]_vars

\* C4: when the ready-wait timer expires (mounted client), the state becomes
\* 'disconnected', the ready-timeout error is in the error field and given to
\* onError, and the expiry starts no subscription: the channels on the bus,
\* the held channel and the connect promises are as before, and a channel is
\* only ever created by a connect call.
C4_ReadyTimeout ==
  [][/\ (last'.ev = "timeout" /\ last'.ret = "handled") =>
          /\ state' = "disconnected"
          /\ error' = ErrTimeout
          /\ last'.cb = "onError"
          /\ bus' = bus
          /\ channelRef' = channelRef
          /\ promise' = promise
     /\ (\E c \in Channels : bus[c] = "none" /\ bus'[c] # "none") => IsConnect(last')]_vars

\* C4 witness: the subscribe was acknowledged, no 'ready' was received on the
\* channel, and its timer has just expired.
C4_Witness ==
  /\ last.ev = "timeout"
  /\ last.ret = "handled"
  /\ last.ch # NoRef
  /\ channelRef = last.ch
  /\ promise[last.ch] = "resolved"
  /\ ~readySeen[last.ch]
  /\ state = "disconnected"
  /\ error = ErrTimeout

\* C5: whenever the state of a mounted client is 'disconnected', a call
\* connect(name) with a non-empty name moves the state to 'connecting'.
C5_ReconnectFromDisconnected ==
  [][(/\ mounted
      /\ state = "disconnected"
      /\ IsConnect(last')
      /\ last'.ev # "connect:") => state' = "connecting"]_vars

\* C6: no expiry of a ready-wait timer of the held channel moves a connected
\* client to 'disconnected'.
C6_NoTimeoutWhenConnected ==
  [][(/\ state = "connected"
      /\ last'.ev = "timeout"
      /\ last'.ch = channelRef) => state' = "connected"]_vars

\* C7: connect with an empty channel name is rejected with 'No channel name'
\* and changes neither the state nor the subscription; connect (non-empty
\* name) while a channel is held resolves at once, creates no channel and
\* changes nothing.
C7_ConnectGuards ==
  [][(IsConnect(last') /\ (last'.ev = "connect:" \/ channelRef # NoRef)) =>
       /\ last'.ret = IF last'.ev = "connect:"
                        THEN "rejected: No channel name" ELSE "resolved"
       /\ UNCHANGED <<state, error, channelRef, timeoutRef, bus, promise, timer>>]_vars

\* C7 witness: a connect call with a name was made while a channel was held
\* and resolved at once.
C7_Witness ==
  /\ IsConnect(last)
  /\ last.ev # "connect:"
  /\ last.ret = "resolved"
  /\ channelRef # NoRef
  /\ Cardinality({c \in Channels : bus[c] # "none"}) = 1

\* C8: when the bus reports CHANNEL_ERROR or TIMED_OUT for a channel, or
\* CLOSED for the channel the client holds (mounted client), the state becomes
\* 'disconnected', the error field is set, and the connect promise of that
\* channel, if still pending, is rejected.
C8_StatusErrors ==
  [][(/\ mounted
      /\ \/ last'.ev \in {"CHANNEL_ERROR", "TIMED_OUT"}
         \/ last'.ev = "CLOSED" /\ channelRef = last'.ch) =>
       /\ state' = "disconnected"
       /\ error' = CASE last'.ev = "CHANNEL_ERROR" -> ErrChannel
                     [] last'.ev = "TIMED_OUT" -> ErrSubTimedOut
                     [] OTHER -> ErrClosed
       /\ promise[last'.ch] = "pending" => promise'[last'.ch] = "rejected"
       /\ promise'[last'.ch] # "pending"]_vars

\* C8 witness: a CHANNEL_ERROR has just rejected a pending connect.
C8_Witness ==
  /\ last.ev = "CHANNEL_ERROR"
  /\ mounted
  /\ promise[last.ch] = "rejected"
  /\ state = "disconnected"
  /\ error = ErrChannel

\* C9: disconnect() cancels the pending ready-wait timer, clears the channel
\* reference and sets the state to 'disconnected'; the CLOSED status the bus
\* reports for a channel that was unsubscribed changes neither the error nor
\* the state.
C9_DisconnectClean ==
  [][/\ last'.ev = "disconnect" =>
          /\ timeoutRef' = NoRef
          /\ timeoutRef # NoRef => timer'[timeoutRef] # "pending"
          /\ channelRef' = NoRef
          /\ state' = "disconnected"
     /\ (mounted /\ last'.ev = "CLOSED" /\ bus[last'.ch] \in {"leaving", "closing"}) =>
          /\ error' = error
          /\ state' = state]_vars

\* C10: messageGenerator yields the user messages in the order in which the
\* listener received them: of two yielded messages, the one received first
\* was yielded first.
C10_YieldOrder ==
  \A i, j \in 1..Len(yielded) : i < j => yielded[i] < yielded[j]

\* C10 witness: two messages were yielded while later ones had arrived and
\* were waiting in the queue.
C10_Witness ==
  /\ Len(yielded) >= 2
  /\ Len(messageQueue) >= 2

\* C11: while the agent's channel is connected, every user_message the
\* listener appended is either waiting in the queue or was yielded, once and
\* in its place: nothing is skipped or yielded twice. A consumer is parked
\* only on an empty queue with its waiter registered, so the next enqueue
\* wakes it; no message slips in between the empty-queue test and the parking.
C11_ExactlyOnce ==
  connected =>
    /\ yielded \o messageQueue = [i \in 1..received |-> i]
    /\ gen = "parked" => (messageQueue = << >> /\ resolveNext)
    /\ resolveNext => gen = "parked"

\* C11 witness: on a connected channel a parked consumer was woken by an
\* enqueue, after an earlier message had been yielded.
C11_Witness ==
  /\ connected
  /\ gen = "woken"
  /\ messageQueue # << >>
  /\ yielded # << >>

\* C12: disconnect() releases a parked consumer: once the teardown has called
\* it the channel is unsubscribed, connected is cleared and no consumer is
\* left parked, and the released generator ends. Every run whose query ended
\* or threw, interactive or single-shot, gets through this teardown.
C12_DisconnectReleases ==
  /\ [](main \in {"unsubscribing", "ended", "exit0"} =>
          /\ ~connected
          /\ agentBus = "leaving"
          /\ gen # "parked"
          /\ ~resolveNext)
  /\ (~connected /\ gen = "woken") ~> (gen = "done")
  /\ (main \in {"complete", "catch", "finally"}) ~> (main \in {"ended", "exit0"})

\* C12 witness: an interactive run whose query threw has torn down; the
\* consumer, parked without any message having arrived, was released and the
\* generator has ended.
C12_Witness ==
  /\ mode = "interactive"
  /\ main = "ended"
  /\ outbox[Len(outbox)].type = "error"
  /\ received = 0
  /\ gen = "done"

\* C13: the first message the agent publishes is 'ready', and every message,
\* 'ready' included, is published while the agent's channel is subscribed on
\* the bus: never before its subscribe succeeded, never while it is not
\* subscribed.
C13_ReadyFirstWhileSubscribed ==
  /\ [](outbox # << >> => outbox[1].type = "ready")
  /\ [][outbox' # outbox => agentBus' = "joined"]_vars

\* the messages of a type the agent has published
Published(type) == {i \in 1..Len(outbox) : outbox[i].type = type}

\* the terminal messages the agent has published
Terminals == Published("complete") \cup Published("error")

C15_CompleteAfterEveryEnd ==
  (mode = "non-interactive" /\ main = "exit0") =>
    Cardinality(Published("complete")) = 1

\* C15, amended: a single-shot run publishes 'complete' at most once and as
\* its last message; when it has exited after its teardown it has published
\* 'complete' exactly if it has published no 'error' (the query ended without
\* an exception); it ends by process exit, never by returning from main().
C15_CompleteOnSuccessOnly ==
  mode = "non-interactive" =>
    /\ Cardinality(Published("complete")) <= 1
    /\ Published("complete") \subseteq {Len(outbox)}
    /\ main = "exit0" =>
         (Published("complete") # {} <=> Published("error") = {})
    /\ main # "ended"

\* C15 witness: a single-shot run has exited after publishing content and
\* then 'complete'.
C15_Witness ==
  /\ mode = "non-interactive"
  /\ main = "exit0"
  /\ Len(outbox) >= 3
  /\ outbox[Len(outbox)].type = "complete"

\* C16: when the query stream throws, the catch block publishes one 'error'
\* carrying the exception's message ('Query error' if it has none) and the
\* teardown follows: 'error' is published at most once, only by the catch
\* block, nothing is published after it, and a run that left the catch block
\* is on its way through disconnect.
C16_ErrorThenTeardown ==
  /\ [](/\ Cardinality(Published("error")) <= 1
        /\ Published("error") \subseteq {Len(outbox)}
        /\ (Published("error") # {}) => main \in {"finally", "unsubscribing", "ended", "exit0"})
  /\ [][main = "catch" /\ main' # "catch" =>
          /\ main' = "finally"
          /\ outbox' = Append(outbox, Msg("error", IF err = "" THEN ErrQuery ELSE err))]_vars

\* C16 witness: the stream threw an exception without a message after content
\* had been published; the 'error' says 'Query error' and the channel has
\* been disconnected.
C16_Witness ==
  /\ Len(outbox) >= 3
  /\ outbox[Len(outbox)] = Msg("error", ErrQuery)
  /\ ~connected
  /\ agentBus = "leaving"

\* C17: the process does not exit because of an exception without having
\* published 'error': a run that called connect() and exited with 1 (an
\* exception reached main().catch) has an 'error' among its messages.
C17_NoSilentExit ==
  (main = "exit1" /\ agentBus # "none") => Published("error") # {}

\* what the translation owes for one unit of streamed output: one message
\* for a tool_use block, for a text block or string with text and for a slash
\* command's output, nothing for anything else
C18_Owed(unit) ==
  CASE unit = "tool_use" -> << Msg("tool_use", "") >>
    [] unit \in {"text", "string"} -> << Msg("assistant_message", "") >>
    [] unit = "slash" -> << Msg("slash_output", "") >>
    [] OTHER -> << >>

\* C18: the streamed output is translated unit by unit in emission order:
\* the units of the message in hand are taken from the front, each step
\* appends to the published messages exactly what its unit owes, content
\* messages are published by no other step, and the next message of the
\* stream is taken only when every unit of the one in hand has been handled
\* and its publish awaited.
C18_TranslatedInOrder ==
  /\ [][(pending # << >> /\ pending' # pending) =>
          /\ pending' = Tail(pending)
          /\ outbox' = outbox \o C18_Owed(Head(pending))]_vars
  /\ [][(outbox' # outbox) =>
          /\ Len(outbox') = Len(outbox) + 1
          /\ SubSeq(outbox', 1, Len(outbox)) = outbox
          /\ outbox'[Len(outbox')].type \in {"tool_use", "assistant_message", "slash_output"} =>
               (pending # << >> /\ pending' = Tail(pending))]_vars
  /\ [][streamed' # streamed => pending = << >>]_vars

\* C18 witness: a message with a text block and a tool_use block and then a
\* slash command's output were streamed; the agent has published, after
\* 'ready', an assistant_message, a tool_use and a slash_output in that order.
C18_Witness ==
  /\ Len(outbox) = 4
  /\ outbox[2].type = "assistant_message"
  /\ outbox[3].type = "tool_use"
  /\ outbox[4].type = "slash_output"
  /\ pending = << >>

BrokerEffects == {"getSandbox", "writeFile", "startProcess", "subscribe", "setInterval"}

\* a start request the claim calls invalid: no credential or one the
\* verifier rejects, no sessionId, or a single-shot request without task
C20_Invalid(q) ==
  \/ q.token \in {"none", "bad"}
  \/ q.sessionId = ""
  \/ q.path = PathPrompt /\ q.prompt = ""

\* C20: the handler of an invalid start request never makes any of the
\* outside calls, and when it has returned, its response is an error (401 or
\* 400); nothing of the broker's state outside the request changes with its
\* steps.
C20_RejectedBeforeSandbox ==
  /\ [](\A r \in Reqs :
          (Req(r).pc # "idle" /\ C20_Invalid(Req(r))) =>
             /\ Req(r).did \cap BrokerEffects = {}
             /\ Req(r).pc = "done" => Req(r).status \in {400, 401})
  /\ [][\A r \in Reqs :
          (Req(r)' # Req(r) /\ C20_Invalid(Req(r)')) =>
             UNCHANGED <<sandboxFiles, processes, brokerSubs, intervals, promptTimeouts>>]_vars

\* C20 witness: a single-shot request with an accepted credential and a
\* sessionId but no task was answered 'Missing prompt', while another request
\* has started a process.
C20_Witness ==
  \E r, q \in Reqs :
    /\ Req(r).pc = "done"
    /\ Req(r).token = "good"
    /\ Req(r).path = PathPrompt
    /\ Req(r).error = ErrNoPrompt
    /\ Req(q).status = 200

\* C21: when startProcess fails in a single-shot start, the handler answers
\* with an error (500) and the step leaves the running intervals, the open
\* subscriptions and the session table as they were; the failed request owns
\* no interval and no subscription and the table does not hold its handle, so
\* a session id that had no entry has none afterwards.
C21_FailedStartRetainsNothing ==
  /\ [][\A r \in Reqs :
          (Req(r).pc = "starting" /\ Req(r).path = PathPrompt
             /\ Req(r)'.pc = "done" /\ Req(r)'.status # 200) =>
               /\ Req(r)'.status = 500
               /\ UNCHANGED <<brokerSubs, intervals, promptTimeouts>>]_vars
  /\ [](\A r \in Reqs :
          (Req(r).path = PathPrompt /\ Req(r).pc = "done" /\ Req(r).status # 200) =>
            /\ r \notin intervals
            /\ r \notin brokerSubs
            /\ \A s \in DOMAIN promptTimeouts : promptTimeouts[s] # r)

\* C21 witness: a single-shot start whose startProcess threw was answered 500,
\* and nothing is kept for its session id.
C21_Witness ==
  \E r \in Reqs :
    /\ Req(r).path = PathPrompt
    /\ Req(r).pc = "done"
    /\ Req(r).error = ErrStart
    /\ promptTimeouts[Req(r).sessionId] = NoRef
    /\ intervals = {}
    /\ brokerSubs = {}

\* C22: the supervisor decides the destruction at the first timeoutCheck at
\* which the silence since its last recorded activity has reached the
\* timeout: a check that lets the sandbox live saw less, the check that
\* starts the teardown sees a silence in [timeout, timeout + check interval],
\* and when destroy is then called the recorded silence is still no less
\* than the timeout.
C22_DestroyedAfterTimeout ==
  [][\A r \in Reqs :
       /\ (Sup(r).stage = "watching" /\ Sup(r)'.stage = "unsubscribing") =>
            /\ Sup(r).silence >= PromptTimeoutMs
            /\ Sup(r).silence <= PromptTimeoutMs + CheckIntervalMs
       /\ (Sup(r).stage = "watching" /\ Sup(r)'.stage = "watching"
             /\ Sup(r).untilCheck = 0 /\ Sup(r)'.untilCheck # 0) =>
            Sup(r).silence < PromptTimeoutMs
       /\ (Sup(r).stage = "unsubscribing" /\ Sup(r)'.stage = "destroying") =>
            Sup(r).silence >= PromptTimeoutMs]_vars

\* C23: a supervisor tears down once: it calls unsubscribe and destroy at
\* most once each; from the check that starts the teardown on, its interval
\* is cleared, its subscription closed and the table does not hold its
\* handle, also while unsubscribe or destroy is in progress and after a
\* destroy that failed.
C23_TeardownOnce ==
  \A r \in Reqs :
    /\ Sup(r).unsubscribes <= 1
    /\ Sup(r).destroys <= 1
    /\ Sup(r).stage \in {"unsubscribing", "destroying", "done"} =>
         /\ r \notin intervals
         /\ r \notin brokerSubs
         /\ promptTimeouts[Req(r).sessionId] # r
         /\ Sup(r).unsubscribes = 1
    /\ Sup(r).stage \in {"destroying", "done"} => Sup(r).destroys = 1

\* C23 witness: a supervisor's destroy call is still in progress a check
\* period and more after the silence had reached the timeout.
C23_Witness ==
  \E r \in Reqs :
    /\ Sup(r).stage = "destroying"
    /\ Sup(r).silence = PromptTimeoutMs + CheckIntervalMs

\* C24: at every moment a session id has at most one running timeoutCheck
\* interval and at most one open observing subscription.
C24_OneSupervisorPerSession ==
  \A s \in SessionIds \ {""} :
    /\ Cardinality({r \in intervals : Req(r).sessionId = s}) <= 1
    /\ Cardinality({r \in brokerSubs : Req(r).sessionId = s}) <= 1

\* C25: a single-shot session whose agent process runs eventually ends: the
\* process exits by itself or the sandbox is destroyed.
C25_SessionEnds ==
  \A s \in SessionIds \ {""} :
    (sandbox[s] = "running") ~> (sandbox[s] \in {"exited", "destroyed"})

\* C26: the handler of a keepalive changes no process count, interval,
\* subscription, table entry or supervisor (so no lastActivity), and a
\* keepalive with a credential the verifier accepted and a sessionId is
\* answered 200 {status: 'ok'}.
C26_KeepaliveHarmless ==
  /\ [][\A r \in Reqs :
          (Req(r)' # Req(r) /\ Req(r)'.path = PathKeepalive) =>
            UNCHANGED <<processes, intervals, brokerSubs, promptTimeouts, sup, sandbox>>]_vars
  /\ [](\A r \in Reqs :
          (Req(r).path = PathKeepalive /\ Req(r).pc = "done"
             /\ Req(r).user # "null" /\ Req(r).json /\ Req(r).sessionId # "") =>
            (Req(r).status = 200 /\ Req(r).error = ""))

\* C26 witness: a keepalive whose exec threw was answered 'ok' while a
\* supervisor of its session is watching, a check period into its silence.
C26_Witness ==
  \E r, q \in Reqs :
    /\ Req(r).path = PathKeepalive
    /\ Req(r).pc = "done"
    /\ "logExecFailed" \in Req(r).did
    /\ Sup(q).stage = "watching"
    /\ Sup(q).silence >= CheckIntervalMs

\* the agent's 'ready' reaches the bus in this step
ReadyRelayed == Link'.relayed /\ ~Link.relayed

\* C27: in an interactive session the start request is sent only when the
\* channel the hook holds is subscribed (its SUBSCRIBED was received), the
\* agent's 'ready' reaches the bus only after the client has subscribed, and
\* the client state becomes 'connected' only in the handler of 'ready'.
C27_SubscribedBeforeStart ==
  [][Link'.kind = "chat" =>
       /\ (Link'.pc = "posted" /\ Link.pc # "posted") =>
            (Link.ch # NoRef /\ bus[Link.ch] = "joined")
       /\ ReadyRelayed => ~Link'.early
       /\ (state' = "connected" /\ state # "connected") =>
            (last'.ev = "agent_message" /\ last'.ret = "ready")]_vars

\* C28: in a single-shot session the agent's 'ready' reaches the bus only
\* after the client has subscribed, so no ready-wait timer of the client
\* expires because 'ready' had come too early.
C28_NeverMissesReady ==
  [][Link'.kind = "prompt" =>
       /\ ReadyRelayed => ~Link'.early
       /\ (last'.ev = "timeout" /\ last' # last /\ last'.ret = "handled") =>
            ~Link.early]_vars

RECURSIVE TrailingFails(_)
\* the abnormal closes at the end of the history: those since the last open
TrailingFails(log) ==
  IF log = <<>> \/ log[Len(log)] # "fail" THEN 0
  ELSE 1 + TrailingFails(SubSeq(log, 1, Len(log) - 1))

\* C30: the reconnect scheduled by the n-th abnormal close since the last
\* open (n from 0) is delayed by min(1000 * 2^n, 30000) ms; the delay is at
\* most 30 s, does not decrease from one failure to the next, and is 1 s for
\* the first failure after an open.
C30_Backoff ==
  [][(Len(ReconHook'.log) > Len(ReconHook.log) /\ ReconHook'.log[Len(ReconHook'.log)] = "fail") =>
       /\ ReconHook'.delay = Min(ReconBaseMs * 2 ^ TrailingFails(ReconHook.log), ReconCapMs)
       /\ ReconHook'.delay <= ReconCapMs
       /\ TrailingFails(ReconHook.log) > 0 => ReconHook'.delay >= ReconHook.delay
       /\ TrailingFails(ReconHook.log) = 0 => ReconHook'.delay = ReconBaseMs]_vars

\* C30 witness: six closes in a row without an open: the last delay is the cap.
C30_Witness ==
  /\ TrailingFails(ReconHook.log) = 6
  /\ ReconHook.delay = ReconCapMs

\* C31: once the agent process of a single-shot session has exited (after its
\* 'complete' or terminal 'error'), the session's supervisor is cancelled: no
\* timeoutCheck of it starts a teardown, no destroy is called for the session,
\* and by the next check period its interval and subscription are released.
C31_CancelledOnSuccess ==
  [][\A r \in Reqs :
       (Sup(r).stage # "none" /\ sandbox[Req(r).sessionId] = "exited") =>
         /\ ~(Sup(r).stage = "watching" /\ Sup(r)'.stage = "unsubscribing")
         /\ ~(Sup(r).stage = "unsubscribing" /\ Sup(r)'.stage = "destroying")
         /\ (Sup(r).stage = "watching" /\ Sup(r)'.untilCheck > Sup(r).untilCheck) =>
              (r \notin intervals' /\ r \notin brokerSubs')]_vars

\* C32: every broadcast published on the channel of a session, whatever its
\* event name, sets the last-activity time of each supervisor subscribed to
\* that channel to now (its silence restarts at 0).
C32_EveryMessageCounts ==
  [][casts' # casts =>
       \A r \in brokerSubs : Req(r).sessionId = "s1" => Sup(r)'.silence = 0]_vars

\* C33: the promptTimeouts table mirrors the running supervisors: a session
\* id has an entry exactly when a timeoutCheck interval set for that id is
\* running, and the entry holds the handle of a running interval of that id.
C33_TableMirrorsSupervisors ==
  \A s \in SessionIds \ {""} :
    /\ (promptTimeouts[s] # NoRef) = (\E r \in intervals : Req(r).sessionId = s)
    /\ promptTimeouts[s] # NoRef =>
         (promptTimeouts[s] \in intervals /\ Req(promptTimeouts[s]).sessionId = s)

\* C34: the user messages of a connection are queued, and yielded to the
\* agent, in the order in which they arrived on the socket: the messages
\* yielded so far followed by those still queued are in arrival order.
C34_ArrivalOrder ==
  LET all == Srv.yielded \o Srv.messageQueue IN
  \A i, j \in 1..Len(all) : i < j => all[i] < all[j]

\* C35: a mounted client whose state is 'connected' holds a channel, and an
\* agent message delivered by a channel the client does not hold (one it has
\* released by disconnect), a late 'ready' included, leaves the state as it is.
C35_ConnectedHoldsChannel ==
  [][/\ (mounted' /\ state' = "connected") => channelRef' # NoRef
     /\ (mounted /\ last'.ev = "agent_message" /\ last'.ch # channelRef) =>
          state' = state]_vars

\* C36: while the client holds a channel, a status event of another channel
\* (one it released before the new connect, in particular the CLOSED of its
\* unsubscribe) changes neither the state nor the error and does not settle
\* the promise of the held channel's connect.
C36_OldStatusIgnored ==
  [][(/\ mounted
      /\ channelRef # NoRef
      /\ last'.ev \in {"SUBSCRIBED", "CHANNEL_ERROR", "CLOSED", "TIMED_OUT"}
      /\ last'.ch # channelRef) =>
        /\ state' = state
        /\ error' = error
        /\ promise'[channelRef] = promise[channelRef]]_vars

\* C37: when a runPrompt call has started its session and returns, the client
\* holds a channel named by the session id of that call.
C37_SubscribedToOwnSession ==
  [][(Link'.kind = "prompt" /\ Link'.pc = "started" /\ Link.pc # "started") =>
       /\ channelRef' # NoRef
       /\ Link'.named[channelRef'] = RunIds[Link'.posts]]_vars

\* C38: the close event of a socket that is not the current one (it was
\* superseded by a newer socket) changes nothing but that socket: the current
\* socket reference, the stale check and its clock, the connection state and
\* the lost-connection flag stay as they are.
C38_StaleCloseIgnored ==
  [][\A s \in Sockets :
       (/\ StaleHook.ready[s] \in {"connecting", "open", "closing"}
        /\ StaleHook'.ready[s] = "closed"
        /\ StaleHook.wsRef # s) =>
         /\ StaleHook'.wsRef = StaleHook.wsRef
         /\ StaleHook'.checking = StaleHook.checking
         /\ StaleHook'.until = StaleHook.until
         /\ StaleHook'.silence = StaleHook.silence
         /\ StaleHook'.wasEver = StaleHook.wasEver
         /\ StaleHook'.state = StaleHook.state
         /\ StaleHook'.lost = StaleHook.lost
         /\ \A t \in Sockets \ {s} : StaleHook'.ready[t] = StaleHook.ready[t]]_vars

\* C38 witness: the socket closed by the stale check has reported its close
\* after a newer socket was opened and had received 'ready': the client is
\* still connected on the newer socket with its stale check running.
C38_Witness ==
  /\ StaleHook.by = "close"
  /\ StaleHook.wsRef # NoRef
  /\ StaleHook.ready[StaleHook.wsRef] = "open"
  /\ StaleHook.state = "connected"
  /\ StaleHook.checking
  /\ ~StaleHook.lost
  /\ \E s \in Sockets : s # StaleHook.wsRef /\ StaleHook.ready[s] = "closed"

\* C39: from a disconnect() until the component calls connect() again no
\* reconnect timer is pending and no socket is created, and a clean close
\* (code 1000) schedules no reconnect.
C39_DisconnectStopsReconnect ==
  [][/\ ReconHook'.off => ReconHook'.timers = 0
     /\ (ReconHook.off /\ ReconHook'.off) =>
          \A s \in Sockets :
            ReconHook'.ready[s] = "connecting" => ReconHook.ready[s] = "connecting"
     /\ (\E s \in Sockets : /\ ReconHook.ready[s] # "closed"
                            /\ ReconHook'.ready[s] = "closed"
                            /\ ReconHook'.log = ReconHook.log) =>
          ReconHook'.timers = ReconHook.timers]_vars

\* C40: at every moment at most one socket of the client is connecting or
\* open.
C40_OneLiveSocket ==
  Cardinality({s \in Sockets : ReconHook.ready[s] \in {"connecting", "open"}}) <= 1

====
